---- MODULE Spec2Model ----
(***************************************************************************)
(* Routing and middleware dispatch of the Expressify examples.             *)
(*                                                                         *)
(* The dispatch engine is the one of examples/03-middleware/               *)
(* simple_middleware.py: MiddlewareHandler.do_GET .. do_DELETE wrap        *)
(* process_request in try/except, process_request runs the closure         *)
(* execute_middleware(index) over a list of chain elements, and Response   *)
(* writes to the socket as soon as send is called.  One request is         *)
(* dispatched per behaviour; the call stack of the nested next() calls is  *)
(* the variable stack, and every step of a chain element is one action.    *)
(***************************************************************************)
EXTENDS Integers, Sequences, FiniteSets, TLC

VARIABLES
    dstate,   \* PENDING, RUNNING, TERMINATED or FAILED
    chain,    \* middleware_chain of the request: a sequence of chain elements
    stack,    \* the active calls of chain elements, innermost last
    exc,      \* the exception in flight, or NoExc
    res,      \* the Response object: status_code and headers
    wire,     \* what has been written to the socket: one entry per send
    log,      \* history: what the chain elements and the engine did, in order
    cursor,   \* index given to the latest execute_middleware call, -1 before
    routers,  \* per Router: its middleware list, its route table, its mounts
    phase,    \* setup (declarations), listening, or resolved (chain selected)
    req,      \* the request: method and path (a sequence of segments)
    found,    \* what resolve returned for the request
    mt,       \* one application of compile and match: pattern, path (as
              \* requested and as the segments it was written from), outcome
    conns,    \* per connection: the handler instance with its req and res
    sf,       \* one request to a static-file middleware and what it did
    rq,       \* one Request under construction: raw parts and parsed fields;
              \* or one request at the auth middleware
    store,    \* the data file: sessions.json (the stored sessions) or
              \* tasks.json (the stored tasks)
    now,      \* the clock read by time.time() and datetime.now()
    calls,    \* the requests of the session application, or the operations
              \* of the tasks API, in order of arrival
    limiter,  \* one rate_limiter instance: its clients record and requests
    reloader  \* the AppReloader of the development server, with the
              \* threads inside load_app and the subprocesses started

routerVars == <<routers, phase, req, found>>

\* The variables only the pattern and the connection specifications change.
\* The variables only the specifications of the example services change.
svcVars == <<sf, rq, store, now, calls, limiter, reloader>>

auxVars == <<mt, conns, svcVars>>

vars ==
    <<dstate, chain, stack, exc, res, wire, log, cursor, routers, phase, req, found,
      mt, conns, sf, rq, store, now, calls, limiter, reloader>>

----------------------------------------------------------------------------
(* Bounds *)

MaxChain == 3
MaxUse == 2
MaxRoutes == 2
MaxSegs == 2
MaxConns == 2

----------------------------------------------------------------------------
(* Chain elements.  A chain element is a function (req, res, next); what   *)
(* it does with res and next is its program, a list of operations.  The    *)
(* kinds are the shapes of the middleware and handlers of the examples.    *)

NoExc == "none"

Op(o, a) == [op |-> o, arg |-> a]

\* return next()
PassProgram == << Op("next", "") >>

\* set headers, then return next()
BeforeProgram == << Op("hdr", "X-Before"), Op("next", "") >>

\* result = next(); then touch the response; return result
AfterProgram == << Op("next", ""), Op("hdr", "X-After") >>

\* res.status(401).json({...}); return res     (no next)
StopProgram == << Op("status", "401"), Op("json", "denied") >>

\* res.status(401); return                      (no next, nothing sent)
SilentProgram == << Op("status", "401") >>

\* return res.send(...)
HandlerProgram == << Op("send", "ok") >>

\* raise ValueError(...)
RaiserProgram == << Op("raise", "boom") >>

\* res.send(...) and then an exception
SendRaiseProgram == << Op("send", "ok"), Op("raise", "boom") >>

\* next() invoked a second time
TwiceProgram == << Op("next", ""), Op("next", "") >>

\* try: return next()
CatcherProgram == << Op("trynext", "") >>

\* except Exception as e: res.status(500).json({...})
CatcherExcept == << Op("status", "500"), Op("json", "handled") >>

Kinds ==
    {"pass", "before", "after", "stop", "silent", "handler", "raiser",
     "sendraise", "twice", "catcher"}

Program(kind) ==
    CASE kind = "pass"      -> PassProgram
      [] kind = "before"    -> BeforeProgram
      [] kind = "after"     -> AfterProgram
      [] kind = "stop"      -> StopProgram
      [] kind = "silent"    -> SilentProgram
      [] kind = "handler"   -> HandlerProgram
      [] kind = "raiser"    -> RaiserProgram
      [] kind = "sendraise" -> SendRaiseProgram
      [] kind = "twice"     -> TwiceProgram
      [] kind = "catcher"   -> CatcherProgram

\* The operations of a frame: the body, or the except block once entered.
Ops(kind, mode) == IF mode = "except" THEN CatcherExcept ELSE Program(kind)

\* A chain element: its kind, its role in the chain (use: Router-level
\* middleware, route: route-specific middleware, handler: terminal handler)
\* and, for Router-level middleware, whether a route had already been
\* declared when use() registered it (1) or not (0).
Elem(a, k, r) == [at |-> a, kind |-> k, role |-> r]

\* Every chain of at most MaxChain elements, each of any kind.
Chains ==
    UNION { { [i \in 1..n |-> Elem(0, f[i], IF i = n THEN "handler" ELSE "use")] :
              f \in [1..n -> Kinds] } : n \in 0..MaxChain }

----------------------------------------------------------------------------
(* Response *)

\* Response.__init__
NewResponse ==
    [status_code |-> "200", headers |-> [h \in {"Content-Type"} |-> "text/html"]]

\* Response.status
SetStatus(r, code) == [r EXCEPT !.status_code = code]

\* Response.set_header:  self.headers[name] = value
SetHeader(r, name, value) ==
    [r EXCEPT !.headers =
        [h \in DOMAIN r.headers \cup {name} |->
            IF h = name THEN value ELSE r.headers[h]]]

\* Response.send: status line, headers and body go to the socket at once.
Sent(r, content) ==
    [status |-> r.status_code, headers |-> r.headers, body |-> content]

\* Response.json: Content-Type is set, then send.
JsonHeaders(r) == SetHeader(r, "Content-Type", "application/json")

\* MiddlewareHandler.handle_error: a 500 written straight to the handler.
ErrorResponse(msg) ==
    [status |-> "500",
     headers |-> [h \in {"Content-Type"} |-> "application/json"],
     body |-> <<"Internal Server Error", msg>>]

----------------------------------------------------------------------------
(* execute_middleware *)

\* Variant: the end of the chain answers 200.
NotFoundStatusOk == "200"

\* res.status(404)
NotFoundStatus == "404"

\* if index < len(middleware_chain)
HasElement(index) == index < Len(chain)

\* Variant: the closure skips an element.
NextIndexSkip(index) == index + 2

\* lambda: execute_middleware(index + 1)
NextIndex(index) == index + 1

\* A history entry: what happened, in which element (its index in the chain),
\* how many times that activation had invoked next, and the response object
\* and the number of sends as they were just before.
Ev(e, i, c) ==
    [ev |-> e, idx |-> i, calls |-> c, res |-> res, sent |-> Len(wire)]

Frame(index) == [idx |-> index, pc |-> 1, mode |-> "body", calls |-> 0]

\* Variant: the end of the chain sets the status and sends without json().
NotFoundResPlain(r) == SetStatus(r, NotFoundStatus)

\* The else branch of execute_middleware: res.status(404).json({...}).
NotFoundRes(r) == JsonHeaders(SetStatus(r, NotFoundStatus))

\* Variant: the end of the chain returns without answering.
CallNoFallback(index, stk, lg) ==
    /\ cursor' = index
    /\ IF HasElement(index)
       THEN /\ stack' = Append(stk, Frame(index))
            /\ res' = res
            /\ wire' = wire
            /\ log' = Append(lg, Ev("enter", index, 0))
       ELSE /\ stack' = stk
            /\ res' = res
            /\ wire' = wire
            /\ log' = Append(lg, Ev("fallback", index, 0))

\* execute_middleware(index), called with the stack stk and the history lg:
\* either the element at index starts, or the end of the chain answers 404
\* and returns to the caller.
Call(index, stk, lg) ==
    /\ cursor' = index
    /\ IF HasElement(index)
       THEN /\ stack' = Append(stk, Frame(index))
            /\ res' = res
            /\ wire' = wire
            /\ log' = Append(lg, Ev("enter", index, 0))
       ELSE /\ stack' = stk
            /\ res' = NotFoundRes(res)
            /\ wire' = Append(wire, Sent(NotFoundRes(res), <<"Not Found">>))
            /\ log' = Append(lg, Ev("fallback", index, 0))

Top == stack[Len(stack)]
TopOps == Ops(chain[Top.idx + 1].kind, Top.mode)
Running == dstate = "RUNNING" /\ stack # <<>> /\ exc = NoExc
AtOp(o) == Running /\ Top.pc <= Len(TopOps) /\ TopOps[Top.pc].op = o
Arg == TopOps[Top.pc].arg
Advance == [stack EXCEPT ![Len(stack)].pc = @ + 1]

----------------------------------------------------------------------------
(* Actions *)

\* do_GET/do_POST/...: process_request starts, execute_middleware() is called.
Begin ==
    /\ phase = "resolved"
    /\ dstate = "PENDING"
    /\ dstate' = "RUNNING"
    /\ Call(0, stack, log)
    /\ UNCHANGED <<chain, exc, routerVars, auxVars>>

\* res.status(code)
DoStatus ==
    /\ AtOp("status")
    /\ res' = SetStatus(res, Arg)
    /\ stack' = Advance
    /\ log' = Append(log, Ev("status", Top.idx, Top.calls))
    /\ UNCHANGED <<dstate, chain, exc, wire, cursor, routerVars, auxVars>>

\* res.set_header(name, value)
DoSetHeader ==
    /\ AtOp("hdr")
    /\ res' = SetHeader(res, Arg, "1")
    /\ stack' = Advance
    /\ log' = Append(log, Ev("hdr", Top.idx, Top.calls))
    /\ UNCHANGED <<dstate, chain, exc, wire, cursor, routerVars, auxVars>>

\* res.send(content)
DoSend ==
    /\ AtOp("send")
    /\ wire' = Append(wire, Sent(res, <<Arg>>))
    /\ stack' = Advance
    /\ log' = Append(log, Ev("send", Top.idx, Top.calls))
    /\ UNCHANGED <<dstate, chain, exc, res, cursor, routerVars, auxVars>>

\* res.json(data)
DoJson ==
    /\ AtOp("json")
    /\ res' = JsonHeaders(res)
    /\ wire' = Append(wire, Sent(JsonHeaders(res), <<Arg>>))
    /\ stack' = Advance
    /\ log' = Append(log, Ev("send", Top.idx, Top.calls))
    /\ UNCHANGED <<dstate, chain, exc, cursor, routerVars, auxVars>>

\* next(): the closure calls execute_middleware(index + 1) and returns only
\* when that call has returned.
DoNext ==
    /\ AtOp("next") \/ AtOp("trynext")
    /\ Call(NextIndex(Top.idx),
            [stack EXCEPT ![Len(stack)].pc = @ + 1, ![Len(stack)].calls = @ + 1],
            Append(log, Ev("next", Top.idx, Top.calls + 1)))
    /\ UNCHANGED <<dstate, chain, exc, routerVars, auxVars>>

\* raise
DoRaise ==
    /\ AtOp("raise")
    /\ exc' = Arg
    /\ log' = Append(log, Ev("raise", Top.idx, Top.calls))
    /\ UNCHANGED <<dstate, chain, stack, res, wire, cursor, routerVars, auxVars>>

\* Variant: an engine that walks the list itself, so that an element that
\* returns without next() is followed by the next one all the same.
ReturnAutoAdvance ==
    /\ Running
    /\ Top.pc > Len(TopOps)
    /\ IF Top.calls = 0
       THEN Call(NextIndex(Top.idx), SubSeq(stack, 1, Len(stack) - 1),
                 Append(log, Ev("ret", Top.idx, Top.calls)))
       ELSE /\ stack' = SubSeq(stack, 1, Len(stack) - 1)
            /\ log' = Append(log, Ev("ret", Top.idx, Top.calls))
            /\ UNCHANGED <<res, wire, cursor>>
    /\ UNCHANGED <<dstate, chain, exc, routerVars, auxVars>>

\* The element's function returns.
Return ==
    /\ Running
    /\ Top.pc > Len(TopOps)
    /\ stack' = SubSeq(stack, 1, Len(stack) - 1)
    /\ log' = Append(log, Ev("ret", Top.idx, Top.calls))
    /\ UNCHANGED <<dstate, chain, exc, res, wire, cursor, routerVars, auxVars>>

\* The frame is inside try: next()
InTry(f) ==
    /\ f.mode = "body"
    /\ f.pc > 1
    /\ Program(chain[f.idx + 1].kind)[f.pc - 1].op = "trynext"

\* except Exception as e  in a chain element
Catch ==
    /\ dstate = "RUNNING" /\ exc # NoExc /\ stack # <<>>
    /\ InTry(Top)
    /\ stack' = [stack EXCEPT ![Len(stack)].mode = "except", ![Len(stack)].pc = 1]
    /\ exc' = NoExc
    /\ log' = Append(log, Ev("catch", Top.idx, Top.calls))
    /\ UNCHANGED <<dstate, chain, res, wire, cursor, routerVars, auxVars>>

\* The exception leaves a frame that has no handler for it.
Unwind ==
    /\ dstate = "RUNNING" /\ exc # NoExc /\ stack # <<>>
    /\ ~InTry(Top)
    /\ stack' = SubSeq(stack, 1, Len(stack) - 1)
    /\ log' = Append(log, Ev("unwind", Top.idx, Top.calls))
    /\ UNCHANGED <<dstate, chain, exc, res, wire, cursor, routerVars, auxVars>>

\* Variant: do_GET without the try/except, the exception leaves the handler.
HandleErrorEscapes ==
    /\ dstate = "RUNNING" /\ exc # NoExc /\ stack = <<>>
    /\ dstate' = "ESCAPED"
    /\ UNCHANGED <<chain, stack, exc, res, wire, log, cursor, routerVars, auxVars>>

\* do_GET: except Exception as e: self.handle_error(e)
HandleError ==
    /\ dstate = "RUNNING" /\ exc # NoExc /\ stack = <<>>
    /\ wire' = Append(wire, ErrorResponse(exc))
    /\ exc' = NoExc
    /\ dstate' = "FAILED"
    /\ log' = Append(log, Ev("boundary", -1, 0))
    /\ UNCHANGED <<chain, stack, res, cursor, routerVars, auxVars>>

\* process_request returns to do_GET without an exception.
Finish ==
    /\ dstate = "RUNNING" /\ exc = NoExc /\ stack = <<>>
    /\ dstate' = "TERMINATED"
    /\ UNCHANGED <<chain, stack, exc, res, wire, log, cursor, routerVars, auxVars>>

----------------------------------------------------------------------------
(* PathPattern, RouteTable and Router.  The expressify package that holds  *)
(* them is outside the example sources; they are modelled from sections    *)
(* 3, 4.1 and 4.2 of the design, and from how the examples call them       *)
(* (app.use(fn), app.get(pattern, [middleware]), app.use('/api', router)). *)

RouterIds == {"app", "api"}

Lit(s) == [t |-> "lit", v |-> s]
Cap(n) == [t |-> "cap", v |-> n]
Wild == [t |-> "wild", v |-> "*"]

\* The mount prefixes: /api and /api/a.
MountPrefixes == { <<"api">>, <<"api", "a">> }

\* The route declarations: GET /a/:x with one route-specific middleware
\* (as app.get('/user/:id', [validate_id])), and the catch-all for GET and
\* for POST (as app.get('*')).
Declarations ==
    { [method |-> "GET", pattern |-> <<Lit("a"), Cap("x")>>, nmw |-> 1],
      [method |-> "GET", pattern |-> <<Wild>>, nmw |-> 0],
      [method |-> "POST", pattern |-> <<Wild>>, nmw |-> 0] }

\* The requests: GET of /a/b, /b and /api/a/b.
Paths == { <<"a", "b">>, <<"b">>, <<"api", "a", "b">> }

\* The kinds of middleware given to use(): the application's own pass on
\* or answer themselves, those of the mounted Router pass on.
UseKinds(r) == IF r = "app" THEN {"pass", "stop"} ELSE {"pass"}

EmptyRouter == [middleware |-> <<>>, routes |-> <<>>, mounts |-> {}]

\* Variant: the segment is percent-decoded a second time.
DecodeTwice(s) ==
    CASE s = "abc%20def" -> "abc def"
      [] s = "a%2Fb"     -> "a/b"
      [] s = "a%2520b"   -> "a b"
      [] s = "a%20b"     -> "a b"
      [] OTHER           -> s

\* Percent-decoding of one path segment, on the segments of the model:
\* %20 is a space, %2F a slash, %25 a percent sign.
Decode(s) ==
    CASE s = "abc%20def" -> "abc def"
      [] s = "a%2Fb"     -> "a/b"
      [] s = "a%2520b"   -> "a%20b"
      [] s = "a%20b"     -> "a b"
      [] OTHER           -> s

\* A request path as it arrives is a sequence of tokens: "/" or the text
\* between two slashes.  Splitting on "/" gives one segment per slash, the
\* empty segment "" where nothing follows the slash.
RECURSIVE Split(_)
Split(raw) ==
    IF raw = <<>> THEN <<>>
    ELSE LET front == Split(SubSeq(raw, 1, Len(raw) - 1))
             t == raw[Len(raw)]
         IN  IF t = "/" THEN Append(front, "")
             ELSE IF front = <<>> THEN <<t>>
             ELSE [front EXCEPT ![Len(front)] = t]

\* The segments put together again, with "/" between them; an empty
\* segment adds no text.
RECURSIVE Join(_)
Join(segs) ==
    IF segs = <<>> THEN <<>>
    ELSE (IF Len(segs) = 1 THEN <<>>
          ELSE Join(SubSeq(segs, 1, Len(segs) - 1)) \o <<"/">>)
            \o (IF segs[Len(segs)] = "" THEN <<>> ELSE <<segs[Len(segs)]>>)

\* compile(patternString) accepts the pattern: a wildcard only as the last
\* segment, no capture name twice.
WellFormed(p) ==
    /\ \A i \in DOMAIN p : p[i].t = "wild" => i = Len(p)
    /\ \A i, j \in DOMAIN p :
           (p[i].t = "cap" /\ p[j].t = "cap" /\ p[i].v = p[j].v) => i = j

HasWild(p) == Len(p) > 0 /\ p[Len(p)].t = "wild"

\* Lower case of a segment of the model.
Lower(s) == IF s = "Items" THEN "items" ELSE s

\* Variant: literal segments compared without regard to case.
SegOkNoCase(seg, s) ==
    CASE seg.t = "lit" -> Lower(seg.v) = Lower(s)
      [] seg.t = "cap" -> s # ""
      [] OTHER -> FALSE

\* One pattern segment against one path segment.
SegOk(seg, s) ==
    CASE seg.t = "lit" -> seg.v = s
      [] seg.t = "cap" -> s # ""
      [] OTHER -> FALSE

\* Variant: the wildcard stands for exactly one segment.
MatchesOneSegment(p, path) ==
    /\ Len(path) = Len(p)
    /\ \A i \in 1..Len(p) : p[i].t = "wild" \/ SegOk(p[i], path[i])

\* match(pattern, requestPath) succeeds.
Matches(p, path) ==
    IF HasWild(p)
    THEN /\ Len(path) >= Len(p) - 1
         /\ \A i \in 1..(Len(p) - 1) : SegOk(p[i], path[i])
    ELSE /\ Len(path) = Len(p)
         /\ \A i \in 1..Len(p) : SegOk(p[i], path[i])

\* The ParamMap of a successful match, as a set of <<name, value>>; a value
\* is a sequence of tokens: the decoded segment for a capture, the rest of
\* the path with its slashes for *.
Params(p, path) ==
    { <<p[i].v, <<Decode(path[i])>> >> : i \in {j \in 1..Len(p) : p[j].t = "cap"} }
        \cup (IF HasWild(p)
              THEN { <<"*", Join(SubSeq(path, Len(p), Len(path)))>> }
              ELSE {})

\* match(pattern, requestPath): the path is split, then compared; the
\* outcome is the ParamMap or no match.
Match(p, raw) ==
    IF Matches(p, Split(raw))
    THEN [ok |-> TRUE, params |-> Params(p, Split(raw))]
    ELSE [ok |-> FALSE, params |-> {}]

\* Variant: the route registered last among those that match.
LastMatch(rt, method, path) ==
    LET S == {i \in DOMAIN rt : rt[i].method = method /\ Matches(rt[i].pattern, path)}
    IN  IF S = {} THEN 0 ELSE CHOOSE i \in S : \A j \in S : j <= i

\* The first route of the table, in registration order, that matches; 0 if none.
FirstMatch(rt, method, path) ==
    LET S == {i \in DOMAIN rt : rt[i].method = method /\ Matches(rt[i].pattern, path)}
    IN  IF S = {} THEN 0 ELSE CHOOSE i \in S : \A j \in S : i <= j

\* Variant: a mount prefix matches only the path equal to it.
IsWholePath(pre, path) == pre = path

\* Literal-prefix compare of a mount prefix with the path, by segments.
IsPrefix(pre, path) == Len(pre) <= Len(path) /\ SubSeq(path, 1, Len(pre)) = pre

\* resolve found nothing.  A result names the Routers it went through (via)
\* and the position of the route in the table of the last of them (idx).
NotFound ==
    [ok |-> FALSE, params |-> {}, chain |-> <<>>, via |-> <<>>, pattern |-> <<>>,
     idx |-> 0]

\* Variant: mount copied the child's table; a child mounted while it had no
\* route has none.
TableAtMount(r) ==
    IF \E m \in routers["app"].mounts : m.child = r /\ m.empty
    THEN [routers[r] EXCEPT !.routes = <<>>]
    ELSE routers[r]

\* The Router a mount refers to: the Router object itself, as it is now.
Table(r) == routers[r]

\* Variant: the shortest matching mount prefix is taken.
ShortestMount(ms) == CHOOSE m \in ms : \A n \in ms : Len(m.prefix) <= Len(n.prefix)

\* The mount with the longest prefix among those that match.
LongestMount(ms) == CHOOSE m \in ms : \A n \in ms : Len(n.prefix) <= Len(m.prefix)

\* resolve(method, fullPath) on Router r: the local routes first; if none
\* matches, the child under the longest matching mount prefix, with the
\* remainder of the path.  The middleware of every Router on the way is put
\* in front of the route's own chain.
RECURSIVE Resolve(_, _, _)
Resolve(r, method, path) ==
    LET tbl == Table(r)
        i == FirstMatch(tbl.routes, method, path)
        ms == {m \in tbl.mounts : IsPrefix(m.prefix, path)}
    IN  IF i # 0
        THEN [ok |-> TRUE,
              params |-> Params(tbl.routes[i].pattern, path),
              chain |-> tbl.middleware \o tbl.routes[i].chain,
              via |-> <<r>>,
              pattern |-> tbl.routes[i].pattern,
              idx |-> i]
        ELSE IF ms = {}
        THEN NotFound
        ELSE LET m == LongestMount(ms)
                 sub == Resolve(m.child, method,
                                SubSeq(path, Len(m.prefix) + 1, Len(path)))
             IN  IF sub.ok
                 THEN [sub EXCEPT !.chain = tbl.middleware \o @, !.via = <<r>> \o @]
                 ELSE NotFound

TotalRoutes == Len(routers["app"].routes) + Len(routers["api"].routes)
TotalUse == Len(routers["app"].middleware) + Len(routers["api"].middleware)

\* use(middlewareFn) on Router r
Use(r, kind) ==
    /\ phase = "setup"
    /\ TotalUse < MaxUse
    /\ routers' = [routers EXCEPT
                     ![r].middleware =
                         Append(@, Elem(IF TotalRoutes > 0 THEN 1 ELSE 0, kind, "use"))]
    /\ UNCHANGED <<dstate, chain, stack, exc, res, wire, log, cursor, phase, req, found, auxVars>>

\* Variant: register appends the route without compiling its pattern.
RegisterUnchecked(r, d) ==
    /\ phase = "setup"
    /\ TotalRoutes < MaxRoutes
    /\ routers' = [routers EXCEPT
                     ![r].routes = Append(@,
                        [method |-> d.method,
                         pattern |-> d.pattern,
                         chain |-> [i \in 1..d.nmw |-> Elem(0, "pass", "route")]
                                     \o << Elem(0, "handler", "handler") >>])]
    /\ UNCHANGED <<dstate, chain, stack, exc, res, wire, log, cursor, phase, req, found, auxVars>>

\* register(method, pattern, chain) on Router r: the pattern is compiled,
\* and a PatternError ends the startup with the table as it was; otherwise
\* the route is appended, its chain being the declaration's route-specific
\* middleware and then its handler.
Register(r, d) ==
    /\ phase = "setup"
    /\ TotalRoutes < MaxRoutes
    /\ IF WellFormed(d.pattern)
       THEN /\ routers' = [routers EXCEPT
                     ![r].routes = Append(@,
                        [method |-> d.method,
                         pattern |-> d.pattern,
                         chain |-> [i \in 1..d.nmw |-> Elem(0, "pass", "route")]
                                     \o << Elem(0, "handler", "handler") >>])]
            /\ phase' = phase
       ELSE /\ routers' = routers
            /\ phase' = "PatternError"
    /\ UNCHANGED <<dstate, chain, stack, exc, res, wire, log, cursor, req, found, auxVars>>

\* mount(prefix, childRouter): app.use('/api', api_router).  The record
\* also notes whether the child had no route yet when it was mounted.
Mount(prefix) ==
    /\ phase = "setup"
    /\ \A m \in routers["app"].mounts : m.prefix # prefix
    /\ routers' = [routers EXCEPT
                     !["app"].mounts = @ \cup
                         {[prefix |-> prefix, child |-> "api",
                           empty |-> routers["api"].routes = <<>>]}]
    /\ UNCHANGED <<dstate, chain, stack, exc, res, wire, log, cursor, phase, req, found, auxVars>>

\* app.listen(): the declarations are over.
Listen ==
    /\ phase = "setup"
    /\ phase' = "listening"
    /\ UNCHANGED <<dstate, chain, stack, exc, res, wire, log, cursor, routers, req, found, auxVars>>

\* A request arrives and its chain is resolved from the root Router.
Receive(method, path) ==
    /\ phase = "listening"
    /\ req' = [method |-> method, path |-> path]
    /\ found' = Resolve("app", method, path)
    /\ chain' = Resolve("app", method, path).chain
    /\ phase' = "resolved"
    /\ UNCHANGED <<dstate, stack, exc, res, wire, log, cursor, routers, auxVars>>

\* No pattern is being compiled or matched, no connection is open.
NoMatchRun ==
    [pattern |-> <<>>, segs |-> <<>>, raw |-> <<>>, step |-> "idle",
     out |-> [ok |-> FALSE, params |-> {}]]
NoConns == <<>>

\* No example service is running.
SvcIdle ==
    /\ sf = [step |-> "idle"]
    /\ rq = [step |-> "idle"]
    /\ store = <<>>
    /\ now = 0
    /\ calls = <<>>
    /\ limiter = [step |-> "idle"]
    /\ reloader = [step |-> "idle"]

----------------------------------------------------------------------------
(* Specification of one dispatch over an arbitrary chain *)

Init ==
    /\ dstate = "PENDING"
    /\ chain \in Chains
    /\ stack = <<>>
    /\ exc = NoExc
    /\ res = NewResponse
    /\ wire = <<>>
    /\ log = <<>>
    /\ cursor = -1
    /\ routers = [r \in RouterIds |-> EmptyRouter]
    /\ phase = "resolved"
    /\ req = [method |-> "GET", path |-> <<>>]
    /\ found = [NotFound EXCEPT !.ok = TRUE, !.chain = chain]
    /\ mt = NoMatchRun
    /\ conns = NoConns
    /\ SvcIdle

Next ==
    \/ Begin
    \/ DoStatus
    \/ DoSetHeader
    \/ DoSend
    \/ DoJson
    \/ DoNext
    \/ DoRaise
    \/ Return
    \/ Catch
    \/ Unwind
    \/ HandleError
    \/ Finish

Spec == Init /\ [][Next]_vars

FairSpec == Spec /\ WF_vars(Next)

----------------------------------------------------------------------------
(* Specification of an application: declarations, then one request that is *)
(* resolved through the Routers and dispatched.  The elements the Routers  *)
(* hold only set a status, send or invoke next, so only those steps occur. *)

RouterInit ==
    /\ dstate = "PENDING"
    /\ chain = <<>>
    /\ stack = <<>>
    /\ exc = NoExc
    /\ res = NewResponse
    /\ wire = <<>>
    /\ log = <<>>
    /\ cursor = -1
    /\ routers = [r \in RouterIds |-> EmptyRouter]
    /\ phase = "setup"
    /\ req = [method |-> "GET", path |-> <<>>]
    /\ found = NotFound
    /\ mt = NoMatchRun
    /\ conns = NoConns
    /\ SvcIdle

RouterNext ==
    \/ \E r \in RouterIds : \E k \in UseKinds(r) : Use(r, k)
    \/ \E r \in RouterIds, d \in Declarations : Register(r, d)
    \/ \E p \in MountPrefixes : Mount(p)
    \/ Listen
    \/ \E p \in Paths : Receive("GET", p)
    \/ Begin
    \/ DoStatus
    \/ DoSend
    \/ DoJson
    \/ DoNext
    \/ Return
    \/ Finish

RouterSpec == RouterInit /\ [][RouterNext]_vars

----------------------------------------------------------------------------
(* Specification of resolution: routes are declared on the application and *)
(* on the Router it mounts, the Router is mounted, and one request path is *)
(* resolved.  Nothing is dispatched.                                       *)

\* The declarations: /users/:id, /users/me, /api/users/:id, the first also
\* for POST, and two patterns compile rejects.
ResolveDecls ==
    { [method |-> "GET", pattern |-> <<Lit("users"), Cap("id")>>, nmw |-> 0],
      [method |-> "GET", pattern |-> <<Lit("users"), Lit("me")>>, nmw |-> 0],
      [method |-> "GET", pattern |-> <<Lit("api"), Lit("users"), Cap("id")>>, nmw |-> 0],
      [method |-> "POST", pattern |-> <<Lit("users"), Cap("id")>>, nmw |-> 0],
      [method |-> "GET", pattern |-> <<Wild, Lit("users")>>, nmw |-> 0],
      [method |-> "GET", pattern |-> <<Cap("id"), Cap("id")>>, nmw |-> 0] }

\* The mount prefixes: /api, /api/users and /v1.
ResolvePrefixes == { <<"api">>, <<"api", "users">>, <<"v1">> }

\* What is requested behind a mount prefix, and the requested paths.
Rests == { <<"users", "42">>, <<"users", "me">> }

ResolvePaths == Rests \cup { pre \o rest : pre \in ResolvePrefixes, rest \in Rests }

ResolveNext ==
    \/ \E r \in RouterIds, d \in ResolveDecls : Register(r, d)
    \/ \E p \in ResolvePrefixes : Mount(p)
    \/ Listen
    \/ \E p \in ResolvePaths : Receive("GET", p)

ResolveSpec == RouterInit /\ [][ResolveNext]_vars

----------------------------------------------------------------------------
(* Specification of PathPattern: one pattern is compiled and, when compile *)
(* accepts it, matched against one request path.                           *)

PatternSegs == {Lit("items"), Lit("Items"), Cap("id"), Cap("x"), Wild}

PathSegs == {"", "items", "Items", "abc%20def", "a%2Fb", "a%2520b"}

\* Every pattern of at most MaxSegs segments.
Patterns == UNION { [1..n -> PatternSegs] : n \in 0..MaxSegs }

\* Every path of one to MaxSegs + 1 segments.
SegPaths == UNION { [1..n -> PathSegs] : n \in 1..(MaxSegs + 1) }

\* The path as it is requested: every segment after its slash.
RECURSIVE Slashed(_)
Slashed(segs) ==
    IF segs = <<>> THEN <<>>
    ELSE Slashed(SubSeq(segs, 1, Len(segs) - 1))
            \o (IF segs[Len(segs)] = "" THEN <<"/">> ELSE <<"/", segs[Len(segs)]>>)

\* compile(patternString)
Compile ==
    /\ mt.step = "new"
    /\ mt' = [mt EXCEPT !.step = IF WellFormed(mt.pattern) THEN "compiled"
                                 ELSE "PatternError"]
    /\ UNCHANGED <<dstate, chain, stack, exc, res, wire, log, cursor, routerVars, conns, svcVars>>

\* match(pattern, requestPath)
DoMatch ==
    /\ mt.step = "compiled"
    /\ mt' = [mt EXCEPT !.step = "matched", !.out = Match(mt.pattern, mt.raw)]
    /\ UNCHANGED <<dstate, chain, stack, exc, res, wire, log, cursor, routerVars, conns, svcVars>>

MatchInit ==
    /\ dstate = "PENDING"
    /\ chain = <<>>
    /\ stack = <<>>
    /\ exc = NoExc
    /\ res = NewResponse
    /\ wire = <<>>
    /\ log = <<>>
    /\ cursor = -1
    /\ routers = [r \in RouterIds |-> EmptyRouter]
    /\ phase = "setup"
    /\ req = [method |-> "GET", path |-> <<>>]
    /\ found = NotFound
    /\ \E p \in Patterns, segs \in SegPaths :
           mt = [pattern |-> p, segs |-> segs, raw |-> Slashed(segs), step |-> "new",
                 out |-> [ok |-> FALSE, params |-> {}]]
    /\ conns = NoConns
    /\ SvcIdle

MatchNext ==
    \/ Compile
    \/ DoMatch

MatchSpec == MatchInit /\ [][MatchNext]_vars

----------------------------------------------------------------------------
(* Specification of several requests in flight.  The server creates one    *)
(* MiddlewareHandler per request; process_request builds req and res as    *)
(* local objects of that call and the chain elements reach them through    *)
(* their arguments and closures.  The chain is compression(), which        *)
(* replaces res.send, and the /echo branch of routes_middleware.  The      *)
(* schedule is left open: a server that takes the requests one after the   *)
(* other and one that gives each request its thread are both covered.      *)

\* What arrives on a connection: path, body and whether gzip is accepted.
Arrivals ==
    { [path |-> "/echo/1", body |-> "one", gzip |-> TRUE],
      [path |-> "/echo/2", body |-> "two", gzip |-> FALSE],
      [path |-> "/echo/3", body |-> "one", gzip |-> FALSE] }

\* Request.__init__: the fields are read from the handler of the connection.
NewRequest(a) == [path |-> a.path, body |-> a.body, accept_gzip |-> a.gzip]

\* Variant: the request object is kept in one module-level variable, which
\* holds the request created last.
ReqShared(i) == conns[Len(conns)].req

\* The req a chain element of connection i holds: the object its
\* process_request created.
ReqOf(i) == conns[i].req

\* The server accepts a connection: a handler instance is created and its
\* process_request creates Request(self) and Response(self).
Accept(a) ==
    /\ Len(conns) < MaxConns
    /\ conns' = Append(conns,
                   [arrival |-> a, pc |-> "new", req |-> NewRequest(a),
                    res |-> NewResponse, send |-> "send", content |-> <<>>,
                    wire |-> <<>>])
    /\ UNCHANGED <<dstate, chain, stack, exc, res, wire, log, cursor, routerVars, mt, svcVars>>

\* compression.middleware: original_send = res.send; res.send =
\* compressed_send; return next()
PatchSend(i) ==
    /\ conns[i].pc = "new"
    /\ conns' = [conns EXCEPT ![i].send = "compressed_send", ![i].pc = "patched"]
    /\ UNCHANGED <<dstate, chain, stack, exc, res, wire, log, cursor, routerVars, mt, svcVars>>

\* routes_middleware, POST /echo: res.json({'echo': req.body, ...}) sets the
\* content type and hands the content to res.send.
Echo(i) ==
    /\ conns[i].pc = "patched"
    /\ conns' = [conns EXCEPT ![i].res = JsonHeaders(@),
                               ![i].content = <<ReqOf(i).path, ReqOf(i).body>>,
                               ![i].pc = "sending"]
    /\ UNCHANGED <<dstate, chain, stack, exc, res, wire, log, cursor, routerVars, mt, svcVars>>

\* compressed_send: with gzip accepted by the request the encoding headers
\* are set on res; then original_send writes to the handler's socket.
CompressedSend(i) ==
    /\ conns[i].pc = "sending"
    /\ conns[i].send = "compressed_send"
    /\ LET r == IF ReqOf(i).accept_gzip
                THEN SetHeader(conns[i].res, "Content-Encoding", "gzip")
                ELSE conns[i].res
       IN  conns' = [conns EXCEPT ![i].res = r,
                                  ![i].wire = Append(@, Sent(r, conns[i].content)),
                                  ![i].pc = "done"]
    /\ UNCHANGED <<dstate, chain, stack, exc, res, wire, log, cursor, routerVars, mt, svcVars>>

ConnInit ==
    /\ dstate = "PENDING"
    /\ chain = <<>>
    /\ stack = <<>>
    /\ exc = NoExc
    /\ res = NewResponse
    /\ wire = <<>>
    /\ log = <<>>
    /\ cursor = -1
    /\ routers = [r \in RouterIds |-> EmptyRouter]
    /\ phase = "listening"
    /\ req = [method |-> "GET", path |-> <<>>]
    /\ found = NotFound
    /\ mt = NoMatchRun
    /\ conns = NoConns
    /\ SvcIdle

ConnNext ==
    \/ \E a \in Arrivals : Accept(a)
    \/ \E i \in DOMAIN conns : PatchSend(i)
    \/ \E i \in DOMAIN conns : Echo(i)
    \/ \E i \in DOMAIN conns : CompressedSend(i)

ConnSpec == ConnInit /\ [][ConnNext]_vars

----------------------------------------------------------------------------
(* The static-file middlewares of examples/03-middleware.  A path is a     *)
(* record: abs tells whether the string starts with "/", segs are its      *)
(* segments.  The file system holds a public directory, a sibling          *)
(* directory whose name starts with "public", and a file next to them.     *)

MaxDepth == 3

\* The working directory of the server process.
Cwd == <<"app">>

\* The directories and the files that exist.
FileSystem ==
    [dirs |-> {<<>>, <<"app">>, <<"app", "public">>, <<"app", "public-private">>},
     files |-> {<<"app", "public", "index.html">>,
                <<"app", "public-private", "key">>,
                <<"app", "secret.py">>}]

\* What a request can put after "/static/" or "/public/".
RequestRests ==
    UNION {[1..n -> {"index.html", "..", "public-private", "key", "secret.py"}] :
              n \in 1..MaxDepth}

\* os.path.normpath: ".." removes the segment before it, textually; at the
\* root it is dropped, at the front of a relative path it stays.
RECURSIVE Collapse(_, _, _)
Collapse(abs, done, todo) ==
    IF todo = <<>> THEN done
    ELSE IF Head(todo) # ".." THEN Collapse(abs, Append(done, Head(todo)), Tail(todo))
    ELSE IF done # <<>> /\ done[Len(done)] # ".."
         THEN Collapse(abs, SubSeq(done, 1, Len(done) - 1), Tail(todo))
    ELSE IF abs THEN Collapse(abs, done, Tail(todo))
    ELSE Collapse(abs, Append(done, ".."), Tail(todo))

\* os.path.abspath: normpath(join(os.getcwd(), p)) for a relative p.
Abspath(p) ==
    [abs |-> TRUE, segs |-> Collapse(TRUE, <<>>, IF p.abs THEN p.segs ELSE Cwd \o p.segs)]

\* str.startswith on two path strings, p.startswith(q): the segments of q
\* before its last are segments of p, and the last one starts the name
\* that follows in p.
PathStartsWith(p, q) ==
    /\ p.abs = q.abs
    /\ q.segs # <<>>
    /\ Len(p.segs) >= Len(q.segs)
    /\ SubSeq(p.segs, 1, Len(q.segs) - 1) = SubSeq(q.segs, 1, Len(q.segs) - 1)
    /\ LET a == p.segs[Len(q.segs)]
           b == q.segs[Len(q.segs)]
       IN  a = b \/ (a = "public-private" /\ b = "public")

\* What the operating system opens for a path: it walks the segments from
\* the root or the working directory, and every segment walked through has
\* to be a directory.  <<"ENOENT">> when the walk fails.
RECURSIVE Walk(_, _)
Walk(at, todo) ==
    IF todo = <<>> THEN at
    ELSE IF at \notin FileSystem.dirs THEN <<"ENOENT">>
    ELSE IF Head(todo) = ".."
         THEN Walk(IF at = <<>> THEN at ELSE SubSeq(at, 1, Len(at) - 1), Tail(todo))
    ELSE Walk(Append(at, Head(todo)), Tail(todo))

Opened(p) == Walk(IF p.abs THEN <<>> ELSE Cwd, p.segs)

\* middleware_utils.static_files(directory).middleware for GET /static/<rest>
StaticFiles ==
    /\ sf.step = "new" /\ sf.by = "static_files"
    /\ LET file_path == [abs |-> sf.directory.abs, segs |-> sf.directory.segs \o sf.rest]
           norm_path == [abs |-> file_path.abs,
                         segs |-> Collapse(file_path.abs, <<>>, file_path.segs)]
           allowed == PathStartsWith(norm_path, Abspath(sf.directory))
           isfile == Opened(file_path) \in FileSystem.files
       IN  sf' = [sf EXCEPT !.step = "done",
                     !.out = IF ~allowed THEN "403"
                             ELSE IF ~isfile THEN "next"
                             ELSE "served",
                     !.file = IF allowed /\ isfile THEN Opened(file_path) ELSE <<>>]
    /\ UNCHANGED <<dstate, chain, stack, exc, res, wire, log, cursor, routerVars,
                   mt, conns, rq, store, now, calls, limiter, reloader>>

\* simple_middleware.static_files_middleware for GET /public/<rest>:
\* file_path = os.path.join(os.getcwd(), req.path[1:])
StaticFilesMiddleware ==
    /\ sf.step = "new" /\ sf.by = "static_files_middleware"
    /\ LET file_path == [abs |-> TRUE, segs |-> Cwd \o <<"public">> \o sf.rest]
           isfile == Opened(file_path) \in FileSystem.files
       IN  sf' = [sf EXCEPT !.step = "done",
                     !.out = IF isfile THEN "served" ELSE "next",
                     !.file = IF isfile THEN Opened(file_path) ELSE <<>>]
    /\ UNCHANGED <<dstate, chain, stack, exc, res, wire, log, cursor, routerVars,
                   mt, conns, rq, store, now, calls, limiter, reloader>>

\* simple_server.SimpleHandler.do_GET for a path that starts with /public/
DoGet ==
    /\ sf.step = "new" /\ sf.by = "do_GET"
    /\ LET file_path == [abs |-> TRUE, segs |-> Cwd \o <<"public">> \o sf.rest]
           isfile == Opened(file_path) \in FileSystem.files
       IN  sf' = [sf EXCEPT !.step = "done",
                     !.out = IF isfile THEN "served" ELSE "404",
                     !.file = IF isfile THEN Opened(file_path) ELSE <<>>]
    /\ UNCHANGED <<dstate, chain, stack, exc, res, wire, log, cursor, routerVars,
                   mt, conns, rq, store, now, calls, limiter, reloader>>

\* The engine and the Routers are not involved in the example services.
EngineIdle ==
    /\ dstate = "PENDING"
    /\ chain = <<>>
    /\ stack = <<>>
    /\ exc = NoExc
    /\ res = NewResponse
    /\ wire = <<>>
    /\ log = <<>>
    /\ cursor = -1
    /\ routers = [r \in RouterIds |-> EmptyRouter]
    /\ phase = "listening"
    /\ req = [method |-> "GET", path |-> <<>>]
    /\ found = NotFound
    /\ mt = NoMatchRun
    /\ conns = NoConns

StaticInit ==
    /\ EngineIdle
    /\ \E by \in {"static_files", "static_files_middleware", "do_GET"} :
       \E d \in {[abs |-> FALSE, segs |-> <<"public">>],
                 [abs |-> TRUE, segs |-> <<"app", "public">>]} :
       \E rest \in RequestRests :
          /\ by # "static_files" => d.abs
          /\ sf = [step |-> "new", by |-> by, directory |-> d, rest |-> rest,
                   out |-> "", file |-> <<>>]
    /\ rq = [step |-> "idle"]
    /\ store = <<>>
    /\ now = 0
    /\ calls = <<>>
    /\ limiter = [step |-> "idle"]
    /\ reloader = [step |-> "idle"]

StaticNext ==
    \/ StaticFiles
    \/ StaticFilesMiddleware
    \/ DoGet

StaticSpec == StaticInit /\ [][StaticNext]_vars

----------------------------------------------------------------------------
(* The session application of examples/09-sessions-cookies.  store is the  *)
(* content of sessions.json; every request works on the copy it loaded.    *)
(* The clock counts hours.                                                 *)

MaxCalls == 2
MaxNow == 3

\* timedelta(hours=24): the lifetime of a new session.
SessionHours == 24

\* users.json: the identifiers of the users that exist.
Users == {"u1", "u2"}

\* sessions.json at start: one session that expires while the server runs,
\* one of a user that no longer exists, one that has expired.
StoredSessions ==
    <<[id |-> "s1", user_id |-> "u1", expires_at |-> 2],
      [id |-> "s2", user_id |-> "u9", expires_at |-> 48],
      [id |-> "s3", user_id |-> "u2", expires_at |-> 0]>>

\* What get_session returns when there is no session.
None == [id |-> "", user_id |-> "", expires_at |-> 0]

\* [s for s in sessions if keep(s)]
RECURSIVE Without(_, _, _)
Without(sessions, field, value) ==
    IF sessions = <<>> THEN <<>>
    ELSE IF Head(sessions)[field] = value THEN Without(Tail(sessions), field, value)
    ELSE <<Head(sessions)>> \o Without(Tail(sessions), field, value)

\* next((s for s in sessions if s['id'] == session_id), None)
Find(sessions, session_id) ==
    IF \E k \in DOMAIN sessions : sessions[k].id = session_id
    THEN sessions[CHOOSE k \in DOMAIN sessions :
                     /\ sessions[k].id = session_id
                     /\ \A l \in 1..(k - 1) : sessions[l].id # session_id]
    ELSE None

ExpiredNever(session, t) == FALSE

\* get_session: datetime.now() > expires_at
Expired(session, t) == t > session.expires_at

AuthenticatedAlways(c) == TRUE

\* auth_required: the test of req.user
Authenticated(c) == c.user # ""

\* GET /profile after session_middleware: auth_required, then the handler.
Profile(c) ==
    [c EXCEPT !.pc = "done",
              !.out = IF Authenticated(c) THEN "profile"
                      ELSE "redirect /login?redirect=/profile"]

\* GET /logout after session_middleware: the cookie is cleared in the
\* response, redirect to /.
Logout(c) == [c EXCEPT !.pc = "done", !.out = "redirect /"]

\* next() of session_middleware: the route of the request.  The handlers
\* of /profile and /logout touch nothing that is shared and run to the
\* end; handle_login goes on to create_session.
Routed(c) ==
    CASE c.op = "profile" -> Profile(c)
      [] c.op = "logout"  -> Logout(c)
      [] c.op = "login"   -> [c EXCEPT !.pc = "route"]

\* An hour passes.
Tick ==
    /\ now < MaxNow
    /\ now' = now + 1
    /\ UNCHANGED <<dstate, chain, stack, exc, res, wire, log, cursor, routerVars,
                   mt, conns, sf, rq, store, calls, limiter, reloader>>

\* A request arrives with its route, the session_id cookie it presents
\* and, for POST /login, the user whose credentials it carries;
\* session_middleware runs up to the end of get_session's reading: the
\* cookie, load_sessions(), the search and the expiry test.  For a session
\* that is not expired, and for none, req.session and req.user are set and
\* next() goes on to the route.
SessionMiddleware(op, cookie, user_id) ==
    /\ Len(calls) < MaxCalls
    /\ LET sessions == IF cookie = "" THEN <<>> ELSE store
           session == Find(sessions, cookie)
           c == [op |-> op, cookie |-> cookie, login |-> user_id, pc |-> "new",
                 sessions |-> <<>>, session |-> None, user |-> "", sid |-> "",
                 out |-> "", at |-> now,
                 after |-> {k \in DOMAIN calls : calls[k].pc = "done"}]
       IN  calls' = Append(calls,
              IF session # None /\ Expired(session, now)
              THEN [c EXCEPT !.pc = "expired",
                             !.sessions = Without(sessions, "id", cookie)]
              ELSE Routed([c EXCEPT !.session = session,
                                    !.user = IF session.user_id \in Users
                                             THEN session.user_id ELSE ""]))
    /\ UNCHANGED <<dstate, chain, stack, exc, res, wire, log, cursor, routerVars,
                   mt, conns, sf, rq, store, now, limiter, reloader>>

\* get_session for an expired session: save_sessions(sessions), return
\* None; session_middleware sets req.session = req.user = None; next().
RemoveExpired(i) ==
    /\ calls[i].pc = "expired"
    /\ store' = calls[i].sessions
    /\ calls' = [calls EXCEPT ![i] = Routed([calls[i] EXCEPT !.sessions = <<>>])]
    /\ UNCHANGED <<dstate, chain, stack, exc, res, wire, log, cursor, routerVars,
                   mt, conns, sf, rq, now, limiter, reloader>>

\* Variant: create_session appends without removing the user's sessions.
CreateSessionKeepsOld(i) ==
    /\ calls[i].pc = "route" /\ calls[i].op = "login"
    /\ LET session_id == <<"n1", "n2", "n3">>[i]
       IN  calls' = [calls EXCEPT
                        ![i].pc = "created",
                        ![i].sid = session_id,
                        ![i].sessions =
                            Append(store,
                                   [id |-> session_id, user_id |-> calls[i].login,
                                    expires_at |-> now + SessionHours])]
    /\ UNCHANGED <<dstate, chain, stack, exc, res, wire, log, cursor, routerVars,
                   mt, conns, sf, rq, store, now, limiter, reloader>>

\* POST /login with valid credentials, create_session up to the new list:
\* load_sessions(), the user's sessions removed, the new session appended.
\* str(uuid.uuid4()) gives an identifier no other call gets.
CreateSession(i) ==
    /\ calls[i].pc = "route" /\ calls[i].op = "login"
    /\ LET session_id == <<"n1", "n2", "n3">>[i]
       IN  calls' = [calls EXCEPT
                        ![i].pc = "created",
                        ![i].sid = session_id,
                        ![i].sessions =
                            Append(Without(store, "user_id", calls[i].login),
                                   [id |-> session_id, user_id |-> calls[i].login,
                                    expires_at |-> now + SessionHours])]
    /\ UNCHANGED <<dstate, chain, stack, exc, res, wire, log, cursor, routerVars,
                   mt, conns, sf, rq, store, now, limiter, reloader>>

\* create_session: save_sessions(sessions); handle_login sets the cookie
\* and redirects.
HandleLogin(i) ==
    /\ calls[i].pc = "created"
    /\ store' = calls[i].sessions
    /\ calls' = [calls EXCEPT ![i].pc = "done", ![i].out = "redirect /",
                              ![i].sessions = <<>>]
    /\ UNCHANGED <<dstate, chain, stack, exc, res, wire, log, cursor, routerVars,
                   mt, conns, sf, rq, now, limiter, reloader>>

SessionInit ==
    /\ EngineIdle
    /\ store = StoredSessions
    /\ now = 1
    /\ calls = <<>>
    /\ sf = [step |-> "idle"]
    /\ rq = [step |-> "idle"]
    /\ limiter = [step |-> "idle"]
    /\ reloader = [step |-> "idle"]

SessionNext ==
    \/ \E cookie \in {"", "zz", "s1", "s2", "s3"} : SessionMiddleware("profile", cookie, "")
    \/ \E cookie \in {"s1", "s3"} : SessionMiddleware("logout", cookie, "")
    \/ \E u \in Users : SessionMiddleware("login", "", u)
    \/ Tick
    \/ \E i \in DOMAIN calls : RemoveExpired(i)
    \/ \E i \in DOMAIN calls : CreateSession(i)
    \/ \E i \in DOMAIN calls : HandleLogin(i)

SessionSpec == SessionInit /\ [][SessionNext]_vars

\* The requests are served one after the other: a request arrives when
\* every earlier one has been answered.
SeqSessionNext ==
    \/ /\ \A k \in DOMAIN calls : calls[k].pc = "done"
       /\ \/ \E cookie \in {"", "zz", "s1", "s2", "s3"} :
                 SessionMiddleware("profile", cookie, "")
          \/ \E cookie \in {"s1", "s3"} : SessionMiddleware("logout", cookie, "")
          \/ \E u \in Users : SessionMiddleware("login", "", u)
    \/ Tick
    \/ \E i \in DOMAIN calls : RemoveExpired(i)
    \/ \E i \in DOMAIN calls : CreateSession(i)
    \/ \E i \in DOMAIN calls : HandleLogin(i)

SeqSessionSpec == SessionInit /\ [][SeqSessionNext]_vars

----------------------------------------------------------------------------
(* The Request of examples/03-middleware and the JSON body parser of       *)
(* examples/08-restful-api.  A query string is the sequence of its         *)
(* key=value pairs; a parsed body is a record: whether parsing failed is   *)
(* recorded, and the mapping as a sequence of pairs.                       *)

MaxPairs == 2
MaxReads == 2

\* json.loads on the bodies sent: an object, the empty object, and text
\* that is not JSON (JSONDecodeError).
JsonLoads(body_data) ==
    IF body_data = "{\"a\": 1}" THEN [failed |-> FALSE, value |-> <<<<"a", "1">>>>]
    ELSE IF body_data = "{}" THEN [failed |-> FALSE, value |-> <<>>]
    ELSE [failed |-> TRUE, value |-> <<>>]

\* {k: v[0] for k, v in urllib.parse.parse_qs(query_string).items()}:
\* parse_qs lists the values of a key in the order they occur.
ParseQs(pairs) ==
    [k \in {pairs[n][1] : n \in DOMAIN pairs} |->
        LET first == CHOOSE n \in DOMAIN pairs :
                        /\ pairs[n][1] = k
                        /\ \A m \in 1..(n - 1) : pairs[m][1] # k
        IN  pairs[first][2]]

\* Request.__init__ of simple_middleware: the query string is parsed, and
\* a body that is present is read and parsed at once; a body that is not
\* valid JSON leaves self.body = {}.  (None of the bodies sent holds a
\* key=value pair, so parse_qs gives the empty mapping for a form.)
RequestConstruct ==
    /\ rq.step = "new" /\ rq.by = "simple_middleware"
    /\ LET json == rq.content_type = "application/json" /\ rq.body_raw # ""
       IN  rq' = [rq EXCEPT !.step = "built",
                     !.query = ParseQs(rq.query_string),
                     !.parses = IF json THEN 1 ELSE 0,
                     !.body = IF json /\ ~JsonLoads(rq.body_raw).failed
                              THEN JsonLoads(rq.body_raw)
                              ELSE [failed |-> FALSE, value |-> <<>>]]
    /\ UNCHANGED <<dstate, chain, stack, exc, res, wire, log, cursor, routerVars,
                   mt, conns, sf, store, now, calls, limiter, reloader>>

\* json_parser_middleware of the RESTful API for a POST or PUT: it parses
\* req.body_raw before any handler runs; for text that is not JSON it
\* answers 400 and the chain ends.
JsonParserMiddleware ==
    /\ rq.step = "new" /\ rq.by = "restful_api"
    /\ LET json == rq.content_type = "application/json"
           parsed == JsonLoads(rq.body_raw)
       IN  rq' = [rq EXCEPT
                     !.step = IF json /\ rq.body_raw # "" /\ parsed.failed
                              THEN "400" ELSE "built",
                     !.parses = IF json /\ rq.body_raw # "" THEN 1 ELSE 0,
                     !.body = IF json /\ rq.body_raw # "" /\ ~parsed.failed
                              THEN parsed ELSE [failed |-> FALSE, value |-> <<>>]]
    /\ UNCHANGED <<dstate, chain, stack, exc, res, wire, log, cursor, routerVars,
                   mt, conns, sf, store, now, calls, limiter, reloader>>

\* A chain element reads req.body: a plain attribute, nothing is parsed.
ReadBody ==
    /\ rq.step = "built"
    /\ Len(rq.seen) < MaxReads
    /\ rq' = [rq EXCEPT !.seen = Append(@, rq.body)]
    /\ UNCHANGED <<dstate, chain, stack, exc, res, wire, log, cursor, routerVars,
                   mt, conns, sf, store, now, calls, limiter, reloader>>

ParseInit ==
    /\ EngineIdle
    /\ \E by \in {"simple_middleware", "restful_api"} :
       \E n \in 0..MaxPairs :
       \E qs \in [1..n -> {"a", "b"} \X {"1", "2"}] :
       \E ct \in {"application/json", "application/x-www-form-urlencoded", "text/plain"} :
       \E raw \in {"", "{}", "{\"a\": 1}", "{bad"} :
          /\ by = "restful_api" => qs = <<>>
          /\ rq = [step |-> "new", by |-> by, query_string |-> qs, content_type |-> ct,
                   body_raw |-> raw, query |-> <<>>,
                   body |-> [failed |-> FALSE, value |-> <<>>], parses |-> 0,
                   seen |-> <<>>]
    /\ sf = [step |-> "idle"]
    /\ store = <<>>
    /\ now = 0
    /\ calls = <<>>
    /\ limiter = [step |-> "idle"]
    /\ reloader = [step |-> "idle"]

ParseNext ==
    \/ RequestConstruct
    \/ JsonParserMiddleware
    \/ ReadBody

ParseSpec == ParseInit /\ [][ParseNext]_vars

----------------------------------------------------------------------------
(* One rate_limiter instance of examples/03-middleware and requests of one *)
(* client that are dispatched together.  clients is the list the closure   *)
(* keeps for the client; a request works on what it has read.              *)

MaxHits == 3

\* rate_limiter(max_requests, window_seconds) as the application created
\* it, attached to the routes /api/users and /api/status.
MaxRequests == 2
WindowSeconds == 2

\* now = time.time(), and the list comprehension over clients[client_ip]
\* is evaluated: the timestamps inside the window.
FilterWindow(i) ==
    /\ limiter.reqs[i].pc = "new"
    /\ limiter' = [limiter EXCEPT
                      !.reqs[i].pc = "filtered",
                      !.reqs[i].now = now,
                      !.reqs[i].kept = SelectSeq(limiter.clients,
                                                 LAMBDA t : now - t < WindowSeconds)]
    /\ UNCHANGED <<dstate, chain, stack, exc, res, wire, log, cursor, routerVars,
                   mt, conns, sf, rq, store, now, calls, reloader>>

\* clients[client_ip] = <the new list>
StoreWindow(i) ==
    /\ limiter.reqs[i].pc = "filtered"
    /\ limiter' = [limiter EXCEPT !.reqs[i].pc = "stored",
                                  !.clients = limiter.reqs[i].kept]
    /\ UNCHANGED <<dstate, chain, stack, exc, res, wire, log, cursor, routerVars,
                   mt, conns, sf, rq, store, now, calls, reloader>>

\* Variant: the test lets a request through at the limit.
CheckLimitOffByOne(i) ==
    /\ limiter.reqs[i].pc = "stored"
    /\ limiter' = [limiter EXCEPT
                      !.reqs[i].pc = IF Len(limiter.clients) > MaxRequests
                                     THEN "429" ELSE "admitted"]
    /\ UNCHANGED <<dstate, chain, stack, exc, res, wire, log, cursor, routerVars,
                   mt, conns, sf, rq, store, now, calls, reloader>>

\* if len(clients[client_ip]) >= max_requests: answer 429
CheckLimit(i) ==
    /\ limiter.reqs[i].pc = "stored"
    /\ limiter' = [limiter EXCEPT
                      !.reqs[i].pc = IF Len(limiter.clients) >= MaxRequests
                                     THEN "429" ELSE "admitted"]
    /\ UNCHANGED <<dstate, chain, stack, exc, res, wire, log, cursor, routerVars,
                   mt, conns, sf, rq, store, now, calls, reloader>>

\* clients[client_ip].append(now); X-RateLimit-Remaining is set to
\* max_requests - len(clients[client_ip]) and next() is called.
AppendNow(i) ==
    /\ limiter.reqs[i].pc = "admitted"
    /\ limiter' = [limiter EXCEPT
                      !.reqs[i].pc = "next",
                      !.reqs[i].remaining = MaxRequests - (Len(limiter.clients) + 1),
                      !.clients = Append(@, limiter.reqs[i].now)]
    /\ UNCHANGED <<dstate, chain, stack, exc, res, wire, log, cursor, routerVars,
                   mt, conns, sf, rq, store, now, calls, reloader>>

RateInit ==
    /\ EngineIdle
    /\ \E routes \in [1..MaxHits -> {"/api/users", "/api/status"}] :
          limiter = [step |-> "serving", clients |-> <<>>,
                     reqs |-> [i \in 1..MaxHits |->
                                  [route |-> routes[i], pc |-> "new", now |-> 0,
                                   kept |-> <<>>, remaining |-> 0]]]
    /\ now = 0
    /\ sf = [step |-> "idle"]
    /\ rq = [step |-> "idle"]
    /\ store = <<>>
    /\ calls = <<>>
    /\ reloader = [step |-> "idle"]

RateNext ==
    \/ Tick
    \/ \E i \in 1..MaxHits : FilterWindow(i)
    \/ \E i \in 1..MaxHits : StoreWindow(i)
    \/ \E i \in 1..MaxHits : CheckLimit(i)
    \/ \E i \in 1..MaxHits : AppendNow(i)

RateSpec == RateInit /\ [][RateNext]_vars

\* The requests are processed one at a time: a request enters the
\* middleware when no other request is inside it.
SeqRateNext ==
    \/ Tick
    \/ \E i \in 1..MaxHits :
          /\ \A j \in 1..MaxHits : limiter.reqs[j].pc \in {"new", "429", "next"}
          /\ FilterWindow(i)
    \/ \E i \in 1..MaxHits : StoreWindow(i)
    \/ \E i \in 1..MaxHits : CheckLimit(i)
    \/ \E i \in 1..MaxHits : AppendNow(i)

SeqRateSpec == RateInit /\ [][SeqRateNext]_vars

----------------------------------------------------------------------------
(* The development server of dev.py.  The observer thread hands the file   *)
(* system events to AppReloader.on_modified one after the other; the       *)
(* clock counts seconds.  process is the application that runs: the number *)
(* of Python file modifications that had happened when it was started.     *)

MaxEvents == 3

\* A file or directory under a watched directory is modified; the observer
\* queues the event.
Modify(is_directory, py) ==
    /\ reloader.events < MaxEvents
    /\ reloader' = [reloader EXCEPT
                       !.events = @ + 1,
                       !.changed = IF py /\ ~is_directory THEN @ + 1 ELSE @,
                       !.queue = Append(@, [is_directory |-> is_directory, py |-> py])]
    /\ UNCHANGED <<dstate, chain, stack, exc, res, wire, log, cursor, routerVars,
                   mt, conns, sf, rq, store, now, calls, limiter>>

\* AppReloader.on_modified(event) with reload_app and load_app: directories
\* and other files are ignored, and so is an event less than a second after
\* the last reload or during one; otherwise the process is killed and the
\* application is started again.
OnModified ==
    /\ reloader.step = "watching"
    /\ reloader.queue # <<>>
    /\ LET event == Head(reloader.queue)
           current_time == now
           skip == \/ event.is_directory
                   \/ ~event.py
                   \/ current_time - reloader.last_reload < 1
                   \/ reloader.reloading
       IN  reloader' = [reloader EXCEPT
                           !.queue = Tail(@),
                           !.last_reload = IF skip THEN @ ELSE current_time,
                           !.process = IF skip THEN @ ELSE reloader.changed,
                           !.loads = IF skip THEN @ ELSE @ + 1]
    /\ UNCHANGED <<dstate, chain, stack, exc, res, wire, log, cursor, routerVars,
                   mt, conns, sf, rq, store, now, calls, limiter>>

\* AppReloader.__init__ and start(): the observer is started and load_app()
\* starts the application.
DevInit ==
    /\ EngineIdle
    /\ reloader = [step |-> "watching", last_reload |-> 0, reloading |-> FALSE,
                   process |-> 0, loads |-> 1, changed |-> 0, events |-> 0,
                   queue |-> <<>>]
    /\ now = 1
    /\ sf = [step |-> "idle"]
    /\ rq = [step |-> "idle"]
    /\ store = <<>>
    /\ calls = <<>>
    /\ limiter = [step |-> "idle"]

DevNext ==
    \/ \E is_directory \in BOOLEAN, py \in BOOLEAN : Modify(is_directory, py)
    \/ OnModified
    \/ Tick

DevSpec == DevInit /\ [][DevNext]_vars

\* The observer thread keeps dispatching the events it has queued.
FairDevSpec == DevSpec /\ WF_vars(OnModified)

-----------------------------------------------------------------------------
(* src/dev.py: AppReloader.start, the main thread and the observer thread *)

\* The two threads that call load_app: start() in the main thread, and
\* on_modified through reload_app in the observer's thread.
Threads == {"main", "observer"}

\* load_app: if self.process: self.kill_process(), up to the process being
\* terminated; kill_process tests and uses self.process as it is then.
LoadAppKill(t) ==
    /\ reloader.step = "starting"
    /\ reloader.pc[t] = "load"
    /\ reloader' = IF reloader.process # 0
                   THEN [reloader EXCEPT !.procs[reloader.process] = "terminated",
                                         !.pc[t] = "clear"]
                   ELSE [reloader EXCEPT !.pc[t] = "popen"]
    /\ UNCHANGED <<dstate, chain, stack, exc, res, wire, log, cursor, routerVars,
                   mt, conns, sf, rq, store, now, calls, limiter>>

\* kill_process: self.process = None
LoadAppClear(t) ==
    /\ reloader.step = "starting"
    /\ reloader.pc[t] = "clear"
    /\ reloader' = [reloader EXCEPT !.process = 0, !.pc[t] = "popen"]
    /\ UNCHANGED <<dstate, chain, stack, exc, res, wire, log, cursor, routerVars,
                   mt, conns, sf, rq, store, now, calls, limiter>>

\* load_app: subprocess.Popen([sys.executable, self.app_path], ...) starts a
\* subprocess; the thread holds it until it is assigned.
LoadAppPopen(t) ==
    /\ reloader.step = "starting"
    /\ reloader.pc[t] = "popen"
    /\ reloader' = [reloader EXCEPT !.procs = Append(@, "alive"),
                                    !.p[t] = Len(reloader.procs) + 1,
                                    !.pc[t] = "assign"]
    /\ UNCHANGED <<dstate, chain, stack, exc, res, wire, log, cursor, routerVars,
                   mt, conns, sf, rq, store, now, calls, limiter>>

\* load_app: self.process = <the subprocess>, and the return: start() goes
\* on to its sleep loop, on_modified sets self.reloading = False.
LoadAppAssign(t) ==
    /\ reloader.step = "starting"
    /\ reloader.pc[t] = "assign"
    /\ reloader' = [reloader EXCEPT
                       !.process = reloader.p[t],
                       !.reloading = IF t = "observer" THEN FALSE ELSE @,
                       !.pc[t] = IF t = "observer" THEN "idle" ELSE "sleep"]
    /\ UNCHANGED <<dstate, chain, stack, exc, res, wire, log, cursor, routerVars,
                   mt, conns, sf, rq, store, now, calls, limiter>>

\* on_modified(event) for a modified Python file, up to the call of
\* reload_app: the event is dropped less than a second after the last
\* reload or while self.reloading is set.
OnModifiedBegin ==
    /\ reloader.step = "starting"
    /\ reloader.pc["observer"] = "idle"
    /\ reloader.events < MaxEvents
    /\ LET current_time == now
           skip == current_time - reloader.last_reload < 1 \/ reloader.reloading
       IN  reloader' = [reloader EXCEPT
                           !.events = @ + 1,
                           !.last_reload = IF skip THEN @ ELSE current_time,
                           !.reloading = IF skip THEN @ ELSE TRUE,
                           !.pc["observer"] = IF skip THEN "idle" ELSE "load"]
    /\ UNCHANGED <<dstate, chain, stack, exc, res, wire, log, cursor, routerVars,
                   mt, conns, sf, rq, store, now, calls, limiter>>

\* start(): the observer has been started and the main thread is about to
\* call load_app().
StartInit ==
    /\ EngineIdle
    /\ reloader = [step |-> "starting", process |-> 0, procs |-> <<>>,
                   last_reload |-> 0, reloading |-> FALSE, events |-> 0,
                   pc |-> [t \in Threads |-> IF t = "main" THEN "load" ELSE "idle"],
                   p |-> [t \in Threads |-> 0]]
    /\ now = 1
    /\ sf = [step |-> "idle"]
    /\ rq = [step |-> "idle"]
    /\ store = <<>>
    /\ calls = <<>>
    /\ limiter = [step |-> "idle"]

StartNext ==
    \/ \E t \in Threads : LoadAppKill(t)
    \/ \E t \in Threads : LoadAppClear(t)
    \/ \E t \in Threads : LoadAppPopen(t)
    \/ \E t \in Threads : LoadAppAssign(t)
    \/ OnModifiedBegin
    \/ Tick

StartSpec == StartInit /\ [][StartNext]_vars

-----------------------------------------------------------------------------
(* src/examples/03-middleware/middleware_utils.py: auth *)

\* The middleware returned by auth(strategy, secret, header_name) on a
\* request, with the route handler that next() runs. A header value is the
\* sequence of its pieces, <<>> for a missing header: startswith("Bearer ")
\* tests the first piece and auth_header[7:] is what follows it.
Auth ==
    /\ rq.step = "new"
    /\ rq.by = "auth"
    /\ LET auth_header == rq.header
           token == Tail(auth_header)
           unauthorized ==
               \/ auth_header = <<>>
               \/ /\ rq.strategy = "bearer"
                  /\ \/ auth_header[1] # "Bearer "
                     \/ token # <<rq.secret>>
               \/ /\ rq.strategy = "api-key"
                  /\ auth_header # <<rq.secret>>
       IN  rq' = IF unauthorized
                 THEN [rq EXCEPT !.step = "401"]
                 ELSE [rq EXCEPT !.step = "handled",
                                 !.user = IF rq.strategy \in {"bearer", "api-key"}
                                          THEN "authenticated" ELSE @]
    /\ UNCHANGED <<dstate, chain, stack, exc, res, wire, log, cursor, routerVars,
                   mt, conns, sf, store, now, calls, limiter, reloader>>

\* A request to a route guarded by auth(strategy, secret).
AuthInit ==
    /\ EngineIdle
    /\ \E strategy \in {"bearer", "api-key", "basic"} :
       \E secret \in {"secret123", "key"} :
       \E n \in 0..MaxPairs :
       \E header \in [1..n -> {"Bearer ", "Basic ", "secret123", "key", "wrong"}] :
          rq = [step |-> "new", by |-> "auth", strategy |-> strategy,
                secret |-> secret, header |-> header, user |-> "none"]
    /\ sf = [step |-> "idle"]
    /\ store = <<>>
    /\ now = 0
    /\ calls = <<>>
    /\ limiter = [step |-> "idle"]
    /\ reloader = [step |-> "idle"]

AuthNext == Auth

AuthSpec == AuthInit /\ [][AuthNext]_vars

-----------------------------------------------------------------------------
(* src/examples/08-restful-api/app.py: the tasks API *)

\* validate_task(task): the list of errors. A field the body lacks is
\* "absent"; task['title'].strip() raises for a title that is no string.
ValidateTask(task) ==
    [raised |-> task.title = "nonstring",
     errors |->
        (IF task.title \in {"absent", "", " "} THEN <<"Title is required">> ELSE <<>>)
        \o (IF task.description = "absent"
            THEN <<"Description is required">> ELSE <<>>)
        \o (IF task.completed \notin {"absent", "true", "false"}
            THEN <<"Completed must be a boolean">> ELSE <<>>)]

\* POST /api/tasks, create_task: 400 for a body that fails validation;
\* otherwise a task with a new id is appended to the loaded list, the list
\* is saved and the answer is 201. str(uuid.uuid4()) is an id no other
\* call gets.
CreateTask(body) ==
    /\ Len(calls) < MaxCalls
    /\ LET validation == ValidateTask(body)
           new_task == [id |-> <<"n1", "n2", "n3">>[Len(calls) + 1],
                        title |-> body.title,
                        description |-> body.description,
                        completed |-> IF body.completed = "absent"
                                      THEN "false" ELSE body.completed,
                        created_at |-> now]
           status == IF validation.raised THEN 500
                     ELSE IF validation.errors # <<>> THEN 400 ELSE 201
       IN  /\ store' = IF status = 201 THEN Append(store, new_task) ELSE store
           /\ calls' = Append(calls, [op |-> "create_task", task_id |-> "",
                                      body |-> body, status |-> status])
    /\ UNCHANGED <<dstate, chain, stack, exc, res, wire, log, cursor, routerVars,
                   mt, conns, sf, rq, now, limiter, reloader>>

\* Variant: the body is validated before the task is looked up.
UpdateTaskValidatesFirst(task_id, body) ==
    /\ Len(calls) < MaxCalls
    /\ LET tasks == store
           hits == {i \in DOMAIN tasks : tasks[i].id = task_id}
           task_index == IF hits = {} THEN 0
                         ELSE CHOOSE i \in hits : \A j \in hits : i <= j
           validation == ValidateTask(body)
           status == IF validation.raised THEN 500
                     ELSE IF validation.errors # <<>> THEN 400
                     ELSE IF task_index = 0 THEN 404 ELSE 200
       IN  /\ store' = IF status = 200
                       THEN [tasks EXCEPT
                               ![task_index].title = body.title,
                               ![task_index].description = body.description,
                               ![task_index].completed =
                                   IF body.completed = "absent" THEN @
                                   ELSE body.completed]
                       ELSE store
           /\ calls' = Append(calls, [op |-> "update_task", task_id |-> task_id,
                                      body |-> body, status |-> status])
    /\ UNCHANGED <<dstate, chain, stack, exc, res, wire, log, cursor, routerVars,
                   mt, conns, sf, rq, now, limiter, reloader>>

\* PUT /api/tasks/:id, update_task: the first task with the id is looked
\* up in the loaded list, 404 if there is none; then 400 for a body that
\* fails validation; otherwise a copy of the task with title, description
\* and completed from the body replaces it and the list is saved.
UpdateTask(task_id, body) ==
    /\ Len(calls) < MaxCalls
    /\ LET tasks == store
           hits == {i \in DOMAIN tasks : tasks[i].id = task_id}
           task_index == IF hits = {} THEN 0
                         ELSE CHOOSE i \in hits : \A j \in hits : i <= j
           validation == ValidateTask(body)
           status == IF task_index = 0 THEN 404
                     ELSE IF validation.raised THEN 500
                     ELSE IF validation.errors # <<>> THEN 400 ELSE 200
       IN  /\ store' = IF status = 200
                       THEN [tasks EXCEPT
                               ![task_index].title = body.title,
                               ![task_index].description = body.description,
                               ![task_index].completed =
                                   IF body.completed = "absent" THEN @
                                   ELSE body.completed]
                       ELSE store
           /\ calls' = Append(calls, [op |-> "update_task", task_id |-> task_id,
                                      body |-> body, status |-> status])
    /\ UNCHANGED <<dstate, chain, stack, exc, res, wire, log, cursor, routerVars,
                   mt, conns, sf, rq, now, limiter, reloader>>

\* DELETE /api/tasks/:id, delete_task: 404 if no task has the id;
\* otherwise tasks.pop(task_index) and the list is saved.
DeleteTask(task_id) ==
    /\ Len(calls) < MaxCalls
    /\ LET tasks == store
           hits == {i \in DOMAIN tasks : tasks[i].id = task_id}
           task_index == IF hits = {} THEN 0
                         ELSE CHOOSE i \in hits : \A j \in hits : i <= j
           status == IF task_index = 0 THEN 404 ELSE 200
       IN  /\ store' = IF status = 200
                       THEN SubSeq(tasks, 1, task_index - 1)
                            \o SubSeq(tasks, task_index + 1, Len(tasks))
                       ELSE store
           /\ calls' = Append(calls, [op |-> "delete_task", task_id |-> task_id,
                                      body |-> [title |-> "absent",
                                                description |-> "absent",
                                                completed |-> "absent"],
                                      status |-> status])
    /\ UNCHANGED <<dstate, chain, stack, exc, res, wire, log, cursor, routerVars,
                   mt, conns, sf, rq, now, limiter, reloader>>

\* The data file as the application writes it at its first start.
TasksInit ==
    /\ EngineIdle
    /\ store = <<[id |-> "t1", title |-> "Learn Expressify",
                  description |-> "Study the Expressify framework documentation",
                  completed |-> "false", created_at |-> 0],
                 [id |-> "t2", title |-> "Build a RESTful API",
                  description |-> "Create a complete CRUD API with Expressify",
                  completed |-> "true", created_at |-> 0]>>
    /\ now = 1
    /\ calls = <<>>
    /\ sf = [step |-> "idle"]
    /\ rq = [step |-> "idle"]
    /\ limiter = [step |-> "idle"]
    /\ reloader = [step |-> "idle"]

\* The requests carry an id out of the stored, the created and an unknown
\* one, and a body that is valid or fails validation in one of its ways.
TasksNext ==
    LET ids == {"t1", "t2", "n1", "zz"}
        bodies ==
            {[title |-> "t", description |-> "d", completed |-> "true"],
             [title |-> "t", description |-> "d", completed |-> "absent"],
             [title |-> "absent", description |-> "d", completed |-> "false"],
             [title |-> " ", description |-> "d", completed |-> "absent"],
             [title |-> "t", description |-> "absent", completed |-> "absent"],
             [title |-> "t", description |-> "d", completed |-> "yes"],
             [title |-> "nonstring", description |-> "d", completed |-> "absent"]}
    IN  \/ \E body \in bodies : CreateTask(body)
        \/ \E task_id \in ids, body \in bodies : UpdateTask(task_id, body)
        \/ \E task_id \in ids : DeleteTask(task_id)

TasksSpec == TasksInit /\ [][TasksNext]_vars

----------------------------------------------------------------------------
(* Properties of one dispatch *)

Terminal == {"TERMINATED", "FAILED"}

\* The history entries of a kind, and those that start a chain element.
Events(e) == {k \in DOMAIN log : log[k].ev = e}
Entered(i) == {k \in Events("enter") : log[k].idx = i}

\* Entries that change the response object or write to the socket.
Touch == {"status", "hdr", "send", "fallback", "boundary"}

\* The element's function returned and that activation never invoked next.
StopsAt(k) == log[k].ev = "ret" /\ log[k].calls = 0

C3_MutationAfterProceedIsSent ==
    (dstate \in Terminal /\ wire # <<>>) =>
        \A k \in Events("hdr") :
            (log[k].calls = 1 /\ chain[log[k].idx + 1].kind = "after") =>
                "X-After" \in DOMAIN wire[1].headers

\* A step that changes an existing cursor is a next() of the running
\* element and adds one; while PENDING nothing has run.
CursorStep ==
    /\ (cursor # -1 /\ cursor' # cursor) =>
           (cursor' = cursor + 1 /\ (AtOp("next") \/ AtOp("trynext")))
    /\ dstate = "PENDING" => (log = <<>> /\ stack = <<>>)

\* C4: the chain cursor moves only by a next() of the running element, and
\* only from i to i+1; nothing runs while the dispatch is PENDING.
C4_CursorOnlyAdvances == [][CursorStep]_vars

\* Once ended, the dispatch keeps its state and nothing more is done.
StaysEnded ==
    dstate \in Terminal =>
        (dstate' = dstate /\ log' = log /\ wire' = wire /\ res' = res)

\* C5: every dispatch ends TERMINATED or FAILED and stays there, and no chain
\* element does anything after that.
C5_EndsAndStays == <>[](dstate \in Terminal) /\ [][StaysEnded]_vars

\* A dispatch that FAILED from the innermost of three nested elements.
C5_Witness ==
    /\ dstate = "FAILED"
    /\ Entered(2) # {}
    /\ stack = <<>>

\* C6: every chain element is started at most once per request.
C6_EachElementAtMostOnce ==
    \A i \in 0..Len(chain) : Cardinality(Entered(i)) <= 1

\* The running element is the last of the chain and is about to invoke next.
LastProceeds ==
    /\ AtOp("next") \/ AtOp("trynext")
    /\ Top.idx = Len(chain) - 1

LastProceedNoOp == LastProceeds => (res' = res /\ wire' = wire /\ exc' = NoExc)

\* C7 as stated: next() invoked by the last element raises nothing, changes
\* nothing of the response and sends nothing.
C7_LastProceedIsNoOp == [][LastProceedNoOp]_vars

LastProceed404 ==
    LastProceeds =>
        /\ exc' = NoExc
        /\ res'.status_code = "404"
        /\ res'.headers["Content-Type"] = "application/json"
        /\ wire' = Append(wire, [status |-> "404", headers |-> res'.headers,
                                 body |-> <<"Not Found">>])
        /\ Len(stack') = Len(stack)
        /\ stack'[Len(stack)].pc = Top.pc + 1

\* C7 as amended: next() invoked by the last element raises nothing, sets
\* status 404 and the JSON content type, sends the default not-found response
\* once, and returns to the element.
C7_LastProceedAnswers404 == [][LastProceed404]_vars

\* The last element invoked next and the fallback answered.
C7_Witness ==
    \E k \in Events("next") :
        /\ log[k].idx = Len(chain) - 1
        /\ k + 1 \in Events("fallback")
        /\ Len(chain) = 2

\* C8: an error that reaches the dispatch boundary is caught there once and
\* the client receives a 500 response.
C8_ErrorBecomes500 ==
    dstate = "FAILED" =>
        /\ Cardinality(Events("boundary")) = 1
        /\ wire # <<>>
        /\ wire[1].status = "500"

\* C9: when the terminal handler raises, one error-handling stage sees the
\* error and one response is sent.
C9_OneStageOneResponse ==
    (dstate \in Terminal
        /\ \E k \in Events("raise") : log[k].idx = Len(chain) - 1) =>
        /\ Cardinality(Events("boundary") \cup Events("catch")) = 1
        /\ Len(wire) = 1

\* C20: once a response has been sent, no later res.status, res.set_header,
\* res.send or res.json of the same request takes effect (each fails with
\* AlreadySentError), and no request has a response started twice.
C20_NoMutationAfterFlush ==
    /\ Len(wire) <= 1
    /\ \A k \in DOMAIN log :
           log[k].ev \in {"status", "hdr", "send", "fallback"} => log[k].sent = 0

----------------------------------------------------------------------------
(* Properties of resolution and dispatch through the Routers *)

Rank(role) == CASE role = "use" -> 1 [] role = "route" -> 2 [] role = "handler" -> 3

IsUse(e) == e.role = "use"

\* The middleware lists of the Routers a resolution went through, root first.
UseAlong(via) ==
    IF Len(via) = 0 THEN <<>>
    ELSE IF Len(via) = 1 THEN routers[via[1]].middleware
    ELSE routers[via[1]].middleware \o routers[via[2]].middleware

NotFoundSent ==
    [status |-> "404",
     headers |-> [h \in {"Content-Type"} |-> "application/json"],
     body |-> <<"Not Found">>]

HasCatchAll(r, method) ==
    \E i \in DOMAIN routers[r].routes :
        routers[r].routes[i].method = method /\ routers[r].routes[i].pattern = <<Wild>>

LocalMatch(r, method, path) == FirstMatch(routers[r].routes, method, path) # 0

\* Some route would match the request: a route of the root, or a route of a
\* child mounted under any prefix of the path, against the remainder.
SomeRouteMatches ==
    \/ LocalMatch("app", req.method, req.path)
    \/ \E m \in routers["app"].mounts :
          /\ IsPrefix(m.prefix, req.path)
          /\ LocalMatch(m.child, req.method,
                        SubSeq(req.path, Len(m.prefix) + 1, Len(req.path)))

\* The same, looking only under the longest mount prefix that matches.
LongestRouteMatches ==
    \/ LocalMatch("app", req.method, req.path)
    \/ \E m \in routers["app"].mounts :
          /\ IsPrefix(m.prefix, req.path)
          /\ \A n \in routers["app"].mounts :
                 IsPrefix(n.prefix, req.path) => Len(n.prefix) <= Len(m.prefix)
          /\ LocalMatch(m.child, req.method,
                        SubSeq(req.path, Len(m.prefix) + 1, Len(req.path)))

\* What both forms of C10 say about the answer: an unresolved request gets
\* the default 404 and nothing else; with a catch-all route for the method
\* on the root the request is resolved there, never gets the default, and
\* the handler of the resolved route runs unless a middleware answers.
UnresolvedIs404 ==
    /\ (dstate \in Terminal /\ ~found.ok) => wire = <<NotFoundSent>>
    /\ HasCatchAll("app", req.method) =>
           /\ found.ok
           /\ found.via = <<"app">>
           /\ Events("fallback") = {}
           /\ (dstate = "TERMINATED" /\ \A i \in DOMAIN chain : chain[i].kind # "stop") =>
                  (Entered(Len(chain) - 1) # {} /\ Len(wire) = 1 /\ wire[1].status = "200")

\* C10 as stated: a request ends with the default 404 only when no
\* registered route, local or under any mount, matches it.
C10_NotFoundOnlyIfNothingMatches ==
    phase = "resolved" =>
        /\ UnresolvedIs404
        /\ ~found.ok => ~SomeRouteMatches

\* C10 as amended: a request ends with the default 404 exactly when no route
\* of the root and no route under the longest matching mount prefix matches;
\* a child under a shorter matching prefix is not consulted.
C10_NotFoundIffLongestFails ==
    phase = "resolved" =>
        /\ UnresolvedIs404
        /\ found.ok <=> LongestRouteMatches

\* A request under a mount, with routes declared, that nothing matched.
C10_Witness ==
    /\ dstate = "TERMINATED"
    /\ ~found.ok
    /\ TotalRoutes > 0
    /\ \E m \in routers["app"].mounts : IsPrefix(m.prefix, req.path)
    /\ wire = <<NotFoundSent>>

----------------------------------------------------------------------------
(* Properties of PathPattern *)

Matched == mt.step = "matched"

\* The literal segments of the pattern equal the path's, position by
\* position, up to position n.
LiteralsEqual(n) ==
    \A i \in 1..n : mt.pattern[i].t = "lit" => mt.pattern[i].v = mt.segs[i]

\* The path segments under the captures of the pattern are not empty.
CapturesFilled(n) ==
    \A i \in 1..n : mt.pattern[i].t = "cap" => mt.segs[i] # ""

\* C12 as stated: a pattern without trailing wildcard matches a path exactly
\* when both have the same number of segments and every literal segment of
\* the pattern equals the path segment at its position, case included.
C12_MatchIffCountAndLiterals ==
    (Matched /\ ~HasWild(mt.pattern)) =>
        (mt.out.ok <=>
            (Len(mt.segs) = Len(mt.pattern) /\ LiteralsEqual(Len(mt.pattern))))

\* C12 as amended: a pattern without trailing wildcard matches a path exactly
\* when both have the same number of segments, every literal segment of the
\* pattern equals the path segment at its position, case included, and every
\* capture segment stands against a non-empty path segment.
C12_MatchIffCountLiteralsNonEmpty ==
    (Matched /\ ~HasWild(mt.pattern)) =>
        (mt.out.ok <=>
            /\ Len(mt.segs) = Len(mt.pattern)
            /\ LiteralsEqual(Len(mt.pattern))
            /\ CapturesFilled(Len(mt.pattern)))

\* /items/:id was matched against /items/ and did not match: the segment
\* under the capture is empty.
C12_Witness ==
    /\ Matched
    /\ mt.pattern = <<Lit("items"), Cap("id")>>
    /\ mt.segs = <<"items", "">>
    /\ ~mt.out.ok

\* C15: a pattern that ends in a wildcard matches a path exactly when the
\* path has at least the segments of the pattern in front of the wildcard
\* and those match one by one; the match binds the rest of the path, with
\* its slashes, to the name *; the pattern * matches every path.
C15_WildcardMatchesRest ==
    (Matched /\ HasWild(mt.pattern)) =>
        LET n == Len(mt.pattern) - 1
        IN  /\ mt.out.ok <=>
                   /\ Len(mt.segs) >= n
                   /\ LiteralsEqual(n)
                   /\ CapturesFilled(n)
            /\ mt.out.ok =>
                   \E v \in {q[2] : q \in {r \in mt.out.params : r[1] = "*"}} :
                       /\ Slashed(mt.segs) =
                              Slashed(SubSeq(mt.segs, 1, n)) \o
                                  (IF Len(mt.segs) > n THEN <<"/">> ELSE <<>>) \o v
                       /\ Cardinality({r \in mt.out.params : r[1] = "*"}) = 1
            /\ mt.pattern = <<Wild>> => mt.out.ok

\* /items/* matched a path with two more segments and bound both to *.
C15_Witness ==
    /\ Matched
    /\ mt.pattern = <<Lit("items"), Wild>>
    /\ mt.segs = <<"items", "Items", "a%2Fb">>
    /\ mt.out.ok
    /\ <<"*", <<"Items", "/", "a%2Fb">> >> \in mt.out.params

\* The value a match bound to the capture at position i.
Bound(i) == {q[2] : q \in {r \in mt.out.params : r[1] = mt.pattern[i].v}}

\* C16: the value bound to a capture is the path segment, percent-decoded
\* once and after the split on "/": /items/:id binds id to "abc def" for
\* /items/abc%20def, to "a/b" for /items/a%2Fb and to "a%20b" for
\* /items/a%2520b.
C16_CaptureIsDecodedOnce ==
    /\ (Matched /\ mt.out.ok) =>
           \A i \in DOMAIN mt.pattern :
               mt.pattern[i].t = "cap" =>
                   /\ Bound(i) = { <<Decode(mt.segs[i])>> }
                   /\ mt.segs[i] = "a%2520b" => Bound(i) = { <<"a%20b">> }
    /\ (Matched /\ mt.pattern = <<Lit("items"), Cap("id")>>
           /\ Len(mt.segs) = 2 /\ mt.segs[1] = "items" /\ mt.segs[2] # "") =>
           /\ mt.out.ok
           /\ mt.segs[2] = "abc%20def" => mt.out.params = { <<"id", <<"abc def">> >> }
           /\ mt.segs[2] = "a%2Fb" => mt.out.params = { <<"id", <<"a/b">> >> }
           /\ mt.segs[2] = "a%2520b" => mt.out.params = { <<"id", <<"a%20b">> >> }

\* /items/:id matched /items/a%2520b.
C16_Witness ==
    /\ Matched
    /\ mt.pattern = <<Lit("items"), Cap("id")>>
    /\ mt.segs = <<"items", "a%2520b">>
    /\ mt.out.params = { <<"id", <<"a%20b">> >> }

----------------------------------------------------------------------------
(* Properties of resolution *)

UsersId == <<Lit("users"), Cap("id")>>
UsersMe == <<Lit("users"), Lit("me")>>
ApiUsersId == <<Lit("api"), Lit("users"), Cap("id")>>

\* The path without the mount prefix.
Rest(m, path) == SubSeq(path, Len(m.prefix) + 1, Len(path))

\* Route i of table rt is for the method and its pattern matches the path.
RouteFits(rt, i, method, path) ==
    rt[i].method = method /\ Matches(rt[i].pattern, path)

\* The mounts of the application whose prefix starts the path and is the
\* longest of those that do.
LongestOn(path) ==
    {m \in routers["app"].mounts :
        /\ IsPrefix(m.prefix, path)
        /\ \A n \in routers["app"].mounts :
               IsPrefix(n.prefix, path) => Len(n.prefix) <= Len(m.prefix)}

\* The table in which the resolved route was found, and the path it was
\* matched against.
FoundTable == routers[found.via[Len(found.via)]].routes

FoundPath ==
    IF Len(found.via) = 1 THEN req.path
    ELSE Rest(CHOOSE m \in LongestOn(req.path) : TRUE, req.path)

\* C11: the route resolve selects is for the request's method, matches, and
\* no route registered before it in the same table does; no route that
\* repeats the (method, pattern) of an earlier one is ever selected; with
\* /users/:id registered before /users/me, /users/me goes to /users/:id.
C11_FirstRegisteredWins ==
    (phase = "resolved" /\ found.ok) =>
        /\ found.idx \in DOMAIN FoundTable
        /\ RouteFits(FoundTable, found.idx, req.method, FoundPath)
        /\ found.pattern = FoundTable[found.idx].pattern
        /\ \A j \in 1..(found.idx - 1) :
               /\ ~RouteFits(FoundTable, j, req.method, FoundPath)
               /\ ~(/\ FoundTable[j].method = FoundTable[found.idx].method
                     /\ FoundTable[j].pattern = FoundTable[found.idx].pattern)
        /\ (/\ Len(routers["app"].routes) = 2
            /\ routers["app"].routes[1].method = "GET"
            /\ routers["app"].routes[1].pattern = UsersId
            /\ routers["app"].routes[2].pattern = UsersMe
            /\ req.path = <<"users", "me">>) =>
               /\ found.via = <<"app">>
               /\ found.idx = 1
               /\ found.params = { <<"id", <<"me">> >> }

\* /users/:id was registered before /users/me and took the request for
\* /users/me.
C11_Witness ==
    /\ phase = "resolved"
    /\ Len(routers["app"].routes) = 2
    /\ routers["app"].routes[1].method = "GET"
    /\ routers["app"].routes[1].pattern = UsersId
    /\ routers["app"].routes[2].method = "GET"
    /\ routers["app"].routes[2].pattern = UsersMe
    /\ req.path = <<"users", "me">>
    /\ found.ok /\ found.idx = 1

\* The child is mounted at /api and declares GET /users/:id.
ApiMounted ==
    /\ \E m \in routers["app"].mounts : m.prefix = <<"api">> /\ m.child = "api"
    /\ \E i \in DOMAIN routers["api"].routes :
           routers["api"].routes[i].method = "GET" /\ routers["api"].routes[i].pattern = UsersId

\* C13: with the child mounted at /api and declaring /users/:id, and with
\* neither a route of the application for /api/users/:id nor a mount at
\* /api/users in the way, /api/users/42 resolves to the child's route with
\* id = "42" and no other parameter; /users/42 never resolves to a route of
\* the child.
C13_MountedChildRoute ==
    (phase = "resolved" /\ ApiMounted) =>
        /\ (/\ req.path = <<"api", "users", "42">>
            /\ \A i \in DOMAIN routers["app"].routes :
                   routers["app"].routes[i].pattern # ApiUsersId
            /\ \A m \in routers["app"].mounts : m.prefix # <<"api", "users">>) =>
               /\ found.ok
               /\ found.via = <<"app", "api">>
               /\ routers["api"].routes[found.idx].pattern = UsersId
               /\ found.params = { <<"id", <<"42">> >> }
        /\ req.path = <<"users", "42">> => found.via # <<"app", "api">>

\* /api/users/42 was resolved to the child's /users/:id.
C13_Witness ==
    /\ phase = "resolved"
    /\ ApiMounted
    /\ req.path = <<"api", "users", "42">>
    /\ found.ok
    /\ found.via = <<"app", "api">>
    /\ found.params = { <<"id", <<"42">> >> }

\* Some route of the table is for the method and matches the path.
SomeFits(rt, method, path) == \E i \in DOMAIN rt : RouteFits(rt, i, method, path)

\* C14: when a route of the application matches the full path, resolve
\* returns a route of the application, whatever is mounted; otherwise it
\* goes into the child under the longest mount prefix that starts the path,
\* with the rest of the path, and finds what that child's table has for it;
\* with no such mount nothing is found.
C14_LocalFirstThenLongestMount ==
    phase = "resolved" =>
        IF SomeFits(routers["app"].routes, req.method, req.path)
        THEN found.ok /\ found.via = <<"app">>
        ELSE IF LongestOn(req.path) = {}
        THEN ~found.ok
        ELSE \A m \in LongestOn(req.path) :
                /\ found.ok <=>
                       SomeFits(routers[m.child].routes, req.method, Rest(m, req.path))
                /\ found.ok =>
                       /\ found.via = <<"app", m.child>>
                       /\ RouteFits(routers[m.child].routes, found.idx, req.method,
                                    Rest(m, req.path))
                       /\ found.params =
                              Params(routers[m.child].routes[found.idx].pattern,
                                     Rest(m, req.path))

\* A route of the application took /api/users/42 although the child mounted
\* at /api has a route for /users/42.
C14_Witness ==
    /\ phase = "resolved"
    /\ ApiMounted
    /\ req.path = <<"api", "users", "42">>
    /\ found.ok
    /\ found.via = <<"app">>
    /\ found.pattern = ApiUsersId

\* A pattern compile must reject: a wildcard that is not last, or a capture
\* name used twice.
Malformed(p) ==
    \/ \E i \in 1..(Len(p) - 1) : p[i].t = "wild"
    \/ \E i, j \in DOMAIN p : i < j /\ p[i].t = "cap" /\ p[j].t = "cap" /\ p[i].v = p[j].v

NoMalformedRoute ==
    /\ \A r \in RouterIds : \A i \in DOMAIN routers[r].routes :
           ~Malformed(routers[r].routes[i].pattern)
    /\ phase = "PatternError" => (dstate = "PENDING" /\ ~found.ok /\ chain = <<>>)

\* A PatternError comes up only while routes are being declared and leaves
\* the tables as they were; nothing happens after it.
PatternErrorStep ==
    /\ (phase' = "PatternError" /\ phase # "PatternError") =>
           (phase = "setup" /\ routers' = routers)
    /\ phase = "PatternError" => vars' = vars

\* C17: no route table ever holds a pattern with a wildcard that is not last
\* or with a capture name used twice; registering one ends the startup with
\* PatternError and leaves the table unchanged, and PatternError never comes
\* up once requests are served.
C17_PatternErrorAtRegistration == []NoMalformedRoute /\ [][PatternErrorStep]_vars

\* A registration failed with PatternError after another had succeeded.
C17_Witness ==
    /\ phase = "PatternError"
    /\ TotalRoutes = 1

\* Two resolutions gave the same handler chain and the same params.
SameResult(a, b) ==
    /\ a.ok = b.ok
    /\ a.chain = b.chain
    /\ a.params = b.params
    /\ a.pattern = b.pattern
    /\ a.idx = b.idx

\* No route of the application matches the path and m has the longest mount
\* prefix that starts it.
GoesInto(m, path) ==
    /\ ~SomeFits(routers["app"].routes, "GET", path)
    /\ m \in LongestOn(path)

\* Whatever the child's table holds now for the rest of the path is what
\* resolution through the mount finds, routes registered after the mount
\* included.
LateRoutesResolvable ==
    \A m \in routers["app"].mounts : \A rest \in Rests :
        GoesInto(m, m.prefix \o rest) =>
            LET rt == routers[m.child].routes
                out == Resolve("app", "GET", m.prefix \o rest)
            IN  /\ out.ok <=> SomeFits(rt, "GET", rest)
                /\ out.ok =>
                       /\ out.via = <<"app", m.child>>
                       /\ RouteFits(rt, out.idx, "GET", rest)
                       /\ \A j \in 1..(out.idx - 1) : ~RouteFits(rt, j, "GET", rest)

\* C18 as stated: routes registered on the child after the mount are
\* resolvable through it, and under any two prefixes of the same child every
\* path resolves to the same chain and params.
C18_SameUnderEveryPrefix ==
    /\ LateRoutesResolvable
    /\ \A m1, m2 \in routers["app"].mounts : \A rest \in Rests :
           m1.child = m2.child =>
               SameResult(Resolve("app", "GET", m1.prefix \o rest),
                          Resolve("app", "GET", m2.prefix \o rest))

\* C18 as amended: routes registered on the child after the mount are
\* resolvable through it, and under two prefixes of the same child a path
\* resolves to the same chain and params whenever, for both full paths, no
\* route of the parent matches and no longer mount prefix starts the path.
C18_SameUnderUnshadowedPrefixes ==
    /\ LateRoutesResolvable
    /\ \A m1, m2 \in routers["app"].mounts : \A rest \in Rests :
           (/\ m1.child = m2.child
            /\ GoesInto(m1, m1.prefix \o rest)
            /\ GoesInto(m2, m2.prefix \o rest)) =>
               SameResult(Resolve("app", "GET", m1.prefix \o rest),
                          Resolve("app", "GET", m2.prefix \o rest))

\* The child was mounted under /api and /v1 while it had no route; a route
\* registered afterwards was resolved through a mount.
C18_Witness ==
    /\ phase = "resolved"
    /\ \E m1, m2 \in routers["app"].mounts :
           /\ m1.prefix = <<"api">> /\ m2.prefix = <<"v1">>
           /\ m1.empty /\ m2.empty
    /\ req.path = <<"v1", "users", "42">>
    /\ found.ok
    /\ found.via = <<"app", "api">>

----------------------------------------------------------------------------
(* Properties of requests in flight *)

\* The response a connection must get: built from what arrived on it.
OwnResponse(a) ==
    [status |-> "200",
     headers |-> IF a.gzip
                 THEN [h \in {"Content-Type", "Content-Encoding"} |->
                          IF h = "Content-Type" THEN "application/json" ELSE "gzip"]
                 ELSE [h \in {"Content-Type"} |-> "application/json"],
     body |-> <<a.path, a.body>>]

\* Every connection holds the request that arrived on it, and what its
\* chain read and sent comes from that request alone.
OwnContext ==
    \A i \in DOMAIN conns :
        /\ conns[i].req = [path |-> conns[i].arrival.path,
                           body |-> conns[i].arrival.body,
                           accept_gzip |-> conns[i].arrival.gzip]
        /\ conns[i].pc \in {"sending", "done"} =>
               conns[i].content = <<conns[i].arrival.path, conns[i].arrival.body>>
        /\ conns[i].pc = "done" => conns[i].wire = <<OwnResponse(conns[i].arrival)>>
        /\ conns[i].pc # "done" => conns[i].wire = <<>>

\* A step touches the context of one connection only.
OneConnStep ==
    \A i, j \in DOMAIN conns :
        (conns'[i] # conns[i] /\ conns'[j] # conns[j]) => i = j

\* C19: however the dispatches of the requests interleave, the chain of a
\* request reads path, body, headers and response accumulator of its own
\* request only, and no step writes to the context of two requests.
C19_OwnContextOnly == []OwnContext /\ [][OneConnStep]_vars

\* Two requests with different path, body and headers were in flight
\* together: the second was answered while the first was still in its chain.
C19_Witness ==
    /\ Len(conns) = 2
    /\ conns[1].arrival.path = "/echo/1" /\ conns[2].arrival.path = "/echo/2"
    /\ conns[1].pc = "sending"
    /\ conns[2].pc = "done"
    /\ conns[2].wire = <<OwnResponse(conns[2].arrival)>>

----------------------------------------------------------------------------
(* Properties of the example services *)

\* The file a middleware served lies in its root directory or below.
ServedInsideRoot ==
    (sf.step = "done" /\ sf.out = "served") =>
        LET root == Abspath(sf.directory).segs
        IN  /\ Len(sf.file) > Len(root)
            /\ SubSeq(sf.file, 1, Len(root)) = root

\* C21: the static-file middleware never serves a file whose resolved path
\* lies outside its root directory, whatever the request path: not with
\* ".." segments, not for a sibling directory whose name starts with the
\* name of the root.
C21_NeverServesOutsideRoot == ServedInsideRoot

\* The identifier is that of a session in the list that has not expired
\* at time t.
StoredUnexpired(sessions, session_id, t) ==
    /\ session_id # ""
    /\ \E k \in DOMAIN sessions :
           sessions[k].id = session_id /\ ~(t > sessions[k].expires_at)

\* The step in which a request arrives and looks its session up gives it
\* the stored session for an identifier that is stored and unexpired, and
\* no session and no user otherwise; what the lookup gave stays with the
\* request.
LookupRight(i) ==
    IF i \notin DOMAIN calls
    THEN IF StoredUnexpired(store, calls'[i].cookie, now)
         THEN /\ calls'[i].session.id = calls'[i].cookie
              /\ \E k \in DOMAIN store : store[k] = calls'[i].session
         ELSE calls'[i].session = None /\ calls'[i].user = ""
    ELSE calls'[i].session = calls[i].session /\ calls'[i].user = calls[i].user

EveryLookupRight == \A i \in DOMAIN calls' : LookupRight(i)

\* C22: the session lookup ends in "no session", req.session and req.user
\* both empty and no error, for a request without cookie, with an
\* identifier that is not in the store and with one that has expired; it
\* gives a session only for an identifier in the store that is not expired.
C22_AbsentUnknownExpiredAlike == [][EveryLookupRight]_vars

\* Two lookups ended the same way: the one with the expired identifier s3,
\* which was removed from the store, and the one with the unknown zz.
C22_Witness ==
    /\ Len(calls) = 2
    /\ calls[1].cookie = "s3" /\ calls[2].cookie = "zz"
    /\ calls[1].pc = "done" /\ calls[2].pc = "done"
    /\ calls[1].session = None /\ calls[2].session = None
    /\ calls[1].user = "" /\ calls[2].user = ""
    /\ \A k \in DOMAIN store : store[k].id # "s3"

\* The session a completed login created is in the store, unless another
\* login of the same user replaced it.
LoginStored(i) ==
    \/ \E k \in DOMAIN store : store[k].id = calls[i].sid
    \/ \E j \in DOMAIN calls :
          j # i /\ calls[j].op = "login" /\ calls[j].login = calls[i].login

\* C27: however create_session and get_session calls on the session store
\* interleave, no update is lost: after the logins of two different users
\* have completed the store holds the sessions of both, and the removal of
\* an expired session that runs together with a login does not remove the
\* session the login created.
C27_NoLostSession ==
    \A i \in DOMAIN calls :
        (calls[i].op = "login" /\ calls[i].pc = "done") => LoginStored(i)

\* What GET /profile answers when the request is not let through.
ToLogin == "redirect /login?redirect=/profile"

\* C28: the handler of /profile runs only for a request that carries the
\* identifier of a stored, unexpired session (the one its lookup gave it,
\* not expired when it was looked up) whose user exists; every
\* other request to /profile is redirected to /login and the handler does
\* not run.
C28_ProfileOnlyWithValidSession ==
    \A i \in DOMAIN calls :
        (calls[i].op = "profile" /\ calls[i].pc = "done") =>
            IF /\ StoredUnexpired(<<calls[i].session>>, calls[i].cookie, calls[i].at)
               /\ calls[i].session.user_id \in Users
            THEN calls[i].out = "profile"
            ELSE calls[i].out = ToLogin

\* The handler ran for the session of u1, and the request with the session
\* of a user that no longer exists was sent to /login.
C28_Witness ==
    /\ Len(calls) = 2
    /\ calls[1].op = "profile" /\ calls[1].cookie = "s1" /\ calls[1].out = "profile"
    /\ calls[2].op = "profile" /\ calls[2].cookie = "s2" /\ calls[2].out = ToLogin
    /\ calls[2].session.id = "s2"

\* Request j arrived after the logout request i had completed and presents
\* the session identifier that one carried.
AfterLogoutOf(j, i) ==
    /\ calls[i].op = "logout"
    /\ calls[i].cookie # ""
    /\ i \in calls[j].after
    /\ calls[j].cookie = calls[i].cookie

\* C29: after a /logout request that carried session identifier s has
\* completed, every later request that presents s has no session:
\* get_session(s) returns None and /profile redirects to /login.
C29_LogoutClearsSession ==
    \A i, j \in DOMAIN calls :
        AfterLogoutOf(j, i) =>
            /\ calls[j].session = None
            /\ (calls[j].op = "profile" /\ calls[j].pc = "done") => calls[j].out = ToLogin

\* The request has a JSON body to parse.
HasJsonBody == rq.step # "idle" /\ rq.content_type = "application/json" /\ rq.body_raw # ""

\* Nothing is parsed before the first access, and one parse serves every
\* access.
LazyOnce ==
    HasJsonBody =>
        /\ rq.seen = <<>> => rq.parses = 0
        /\ rq.seen # <<>> => rq.parses = 1
        /\ \A n \in DOMAIN rq.seen : rq.seen[n] = rq.seen[1]

\* What an access gives for a body that cannot be parsed is the failure.
FailureKept ==
    (HasJsonBody /\ JsonLoads(rq.body_raw).failed) =>
        \A n \in DOMAIN rq.seen : rq.seen[n].failed

\* C23: body parsing is lazy and memoized: nothing is parsed until the
\* first access, the first access parses once, every later access gives
\* the same outcome without parsing again, and a parse failure is recorded
\* as a failure, not replaced by an empty value.
C23_LazyMemoizedParse == LazyOnce /\ FailureKept

\* The value of the last occurrence of key k in the query string.
LastValue(pairs, k) ==
    LET last == CHOOSE n \in DOMAIN pairs :
                    /\ pairs[n][1] = k
                    /\ \A m \in (n + 1)..Len(pairs) : pairs[m][1] # k
    IN  pairs[last][2]

\* C24: for a query string in which a key occurs more than once, the
\* parsed query mapping holds the value of the last occurrence of the key.
C24_LastValueWins ==
    (rq.step = "built" /\ rq.by = "simple_middleware") =>
        \A k \in DOMAIN rq.query : rq.query[k] = LastValue(rq.query_string, k)

\* The messages of the errors the elements of the chain raise.
RaisedMessages ==
    UNION {{Program(chain[n].kind)[k].arg :
               k \in {j \in DOMAIN Program(chain[n].kind) :
                         Program(chain[n].kind)[j].op = "raise"}} :
           n \in DOMAIN chain}

\* The response the dispatch boundary sent for an error that reached it
\* holds nothing of the message of the error.
BoundaryBodyWithoutMessage ==
    dstate = "FAILED" =>
        \A n \in DOMAIN wire[Len(wire)].body :
            wire[Len(wire)].body[n] \notin RaisedMessages

\* C25: when a chain element raises and the error reaches the dispatch
\* boundary, the body of the response sent to the client does not depend
\* on the message of the error (no error stage of the chain having put it
\* there): the response is the same whatever the message.
C25_ErrorMessageNotSent == BoundaryBodyWithoutMessage

\* The requests the limiter let through, and those of them whose timestamp
\* is in the record.
Admitted == {i \in 1..MaxHits : limiter.reqs[i].pc \in {"admitted", "next"}}

Recorded == {i \in 1..MaxHits : limiter.reqs[i].pc = "next"}

\* No window of window_seconds holds more than max_requests admitted
\* requests.
WithinLimit ==
    \A w \in 0..MaxNow :
        Cardinality({i \in Admitted :
                        w <= limiter.reqs[i].now
                        /\ limiter.reqs[i].now < w + WindowSeconds}) <= MaxRequests

\* The record holds a timestamp for every admitted request that is still
\* inside the window.
NoTimestampLost ==
    \A t \in 0..MaxNow :
        now - t < WindowSeconds =>
            Cardinality({k \in DOMAIN limiter.clients : limiter.clients[k] = t})
                >= Cardinality({i \in Recorded : limiter.reqs[i].now = t})

\* C26: however the requests of one client interleave in one rate_limiter,
\* no window of window_seconds holds more than max_requests admitted
\* requests, and the timestamp of no admitted request is lost from the
\* record of the client.
C26_LimitHoldsUnderInterleaving == WithinLimit /\ NoTimestampLost

\* C30: the development server restarts the application when a Python
\* file changes: every modification of a file ending in .py is eventually
\* followed by a start of the application that begins after it, so the
\* running application does not stay older than the last change.
C30_RestartFollowsChange ==
    \A k \in 1..MaxEvents :
        (reloader.changed >= k) ~> (reloader.process >= k)

\* The chain holds an error-handler middleware.
HasErrorHandler == \E n \in DOMAIN chain : chain[n].kind = "catcher"

\* C33: in an application that registers an error-handler middleware, an
\* exception raised by any chain element is caught by that middleware and
\* answered with its 500 response, whatever the position of the error
\* handler among the middleware: no error reaches the dispatch boundary.
C33_ErrorHandlerAnyPosition == HasErrorHandler => dstate # "FAILED"

\* The request path names a file that exists in the directory: the path
\* stays inside and every segment of it resolves.
NamesFileInside ==
    LET root == Abspath(sf.directory).segs
        p == Collapse(FALSE, <<>>, sf.rest)
    IN  /\ \A n \in DOMAIN p : p[n] # ".."
        /\ \A n \in DOMAIN sf.rest : sf.rest[n] # ".."
        /\ root \o sf.rest \in FileSystem.files

\* C35: static_files(directory) serves the files of the directory: a GET
\* of /static/<p> whose <p> stays inside the directory and names an
\* existing regular file is answered with that file, not with 403 and not
\* passed to next, for a relative and for an absolute directory.
C35_ServesFilesOfDirectory ==
    (sf.step = "done" /\ sf.by = "static_files" /\ NamesFileInside) =>
        /\ sf.out = "served"
        /\ sf.file = Abspath(sf.directory).segs \o sf.rest

\* The request declares JSON and carries a body that is not valid JSON.
InvalidJson == HasJsonBody /\ JsonLoads(rq.body_raw).failed

\* C36: a request that declares application/json with a non-empty body
\* that is not valid JSON is answered 400 and no later chain element
\* runs; with a valid body the handler sees the parsed value; with another
\* content type the chain proceeds and the body is not touched.
C36_InvalidJsonAnswered400 ==
    /\ (InvalidJson /\ rq.step # "new") => (rq.step = "400" /\ rq.seen = <<>>)
    /\ (HasJsonBody /\ ~InvalidJson) =>
           \A n \in DOMAIN rq.seen : rq.seen[n] = JsonLoads(rq.body_raw)
    /\ (rq.step \notin {"idle", "new"} /\ rq.content_type # "application/json") =>
           (rq.step = "built" /\ rq.parses = 0)

\* The chain is made of elements that behave as those of process_request:
\* they pass on with next(), answer and stop, or send.
AnswersOrPasses == \A n \in DOMAIN chain : chain[n].kind \in {"pass", "stop", "handler"}

RecordBounded ==
    /\ Len(limiter.clients) <= MaxRequests
    /\ \A i \in 1..MaxHits :
          limiter.reqs[i].pc \in {"stored", "admitted"} =>
              \A k \in DOMAIN limiter.clients :
                  limiter.reqs[i].now - limiter.clients[k] < WindowSeconds

\* What the steps of request i do: the test answers 429 exactly when the
\* window is full, a request answered 429 is not recorded and goes no
\* further, and an admitted request is recorded and told what is left.
LimitStep(i) ==
    LET pc == limiter.reqs[i].pc
        pc2 == limiter'.reqs[i].pc
    IN  /\ (pc = "stored" /\ pc2 = "429") =>
               Len(limiter.clients) >= MaxRequests /\ limiter'.clients = limiter.clients
        /\ (pc = "stored" /\ pc2 = "admitted") => Len(limiter.clients) < MaxRequests
        /\ pc = "429" => pc2 = "429"
        /\ (pc = "admitted" /\ pc2 = "next") =>
               /\ limiter'.clients = Append(limiter.clients, limiter.reqs[i].now)
               /\ limiter'.reqs[i].remaining = MaxRequests - Len(limiter'.clients)
               /\ limiter'.reqs[i].remaining >= 0

EveryLimitStep == \A i \in 1..MaxHits : LimitStep(i)

\* C31: with requests processed one at a time, the record of a client
\* holds at most max_requests timestamps, all inside the window; a request
\* that finds the window full is answered 429, is not recorded and does
\* not invoke next; an admitted request gets X-RateLimit-Remaining equal
\* to max_requests minus the recorded count, never negative; and the
\* routes the instance is attached to share the budget.
C31_SequentialLimit == [](RecordBounded /\ WithinLimit) /\ [][EveryLimitStep]_vars

\* Two requests to different routes used the budget up and the third, to
\* either route, was answered 429.
C31_Witness ==
    /\ limiter.step = "serving"
    /\ limiter.reqs[1].pc = "next" /\ limiter.reqs[1].route = "/api/users"
    /\ limiter.reqs[2].pc = "next" /\ limiter.reqs[2].route = "/api/status"
    /\ limiter.reqs[2].remaining = 0
    /\ limiter.reqs[3].pc = "429"
    /\ Len(limiter.clients) = MaxRequests

\* The application subprocesses that are running.
Alive == {k \in DOMAIN reloader.procs : reloader.procs[k] = "alive"}

\* The threads that are inside load_app.
Loading == {t \in Threads : reloader.pc[t] \in {"load", "clear", "popen", "assign"}}

\* C32: however the initial load_app of the main thread interleaves with
\* the on_modified callbacks of the observer thread, two loads never run
\* at once, at most one application subprocess is alive, and every
\* subprocess that was started and assigned is the one self.process
\* refers to or has been terminated.
C32_OneSubprocessAlive ==
    reloader.step = "starting" =>
        /\ Cardinality(Loading) <= 1
        /\ Cardinality(Alive) <= 1
        /\ \A k \in Alive :
              \/ k = reloader.process
              \/ \E t \in Loading : reloader.pc[t] = "assign" /\ reloader.p[t] = k

\* Both threads have left load_app and a subprocess nothing refers to is
\* still running.
C32_Orphan ==
    /\ reloader.step = "starting"
    /\ Loading = {}
    /\ \E k \in Alive : k # reloader.process

\* The request carries the configured header with the secret as its
\* credential: after the scheme word for bearer and basic, alone for api-key.
CarriesSecret ==
    CASE rq.strategy = "bearer" -> rq.header = <<"Bearer ", rq.secret>>
      [] rq.strategy = "basic" -> rq.header = <<"Basic ", rq.secret>>
      [] OTHER -> rq.header = <<rq.secret>>

\* C34: for each of the strategies bearer, api-key and basic the middleware
\* lets the request through to the handler only if the header is present
\* and its credential equals the secret; every other request is answered
\* 401 and no handler runs.
C34_NextOnlyWithSecret ==
    (rq.step \in {"401", "handled"} /\ rq.by = "auth") =>
        (rq.step = "handled" <=> CarriesSecret)

\* The bearer and api-key strategies alone.
C34_BearerAndApiKey ==
    (rq.step \in {"401", "handled"} /\ rq.by = "auth" /\ rq.strategy # "basic") =>
        (rq.step = "handled" <=> CarriesSecret)

\* The stored sessions of a user, and those of everybody else, in order.
SessionsOf(sessions, u) == SelectSeq(sessions, LAMBDA s : s.user_id = u)
SessionsNotOf(sessions, u) == SelectSeq(sessions, LAMBDA s : s.user_id # u)

\* No two stored sessions share an identifier or a user.
OnePerUser ==
    \A a, b \in DOMAIN store :
        (store[a].id = store[b].id \/ store[a].user_id = store[b].user_id) => a = b

\* A lookup that came after a login of the user who owned the presented
\* identifier found no session.
OldIdentifierDead ==
    \A i, j \in DOMAIN calls :
        LET old == Find(StoredSessions, calls[i].cookie)
        IN  (/\ j \in calls[i].after
             /\ calls[j].op = "login"
             /\ old # None
             /\ old.user_id = calls[j].login) =>
                calls[i].session = None /\ calls[i].user = ""

\* What saving does in call i: create_session leaves the user with the new
\* session alone and everybody else's sessions as they were, and the
\* removal of an expired session takes exactly that session out.
SaveStep(i) ==
    /\ (calls[i].pc = "created" /\ calls'[i].pc = "done") =>
           /\ Len(SessionsOf(store', calls[i].login)) = 1
           /\ SessionsOf(store', calls[i].login)[1].id = calls[i].sid
           /\ \A k \in DOMAIN store : store[k].id # calls[i].sid
           /\ SessionsNotOf(store', calls[i].login) = SessionsNotOf(store, calls[i].login)
           /\ \A k \in DOMAIN store :
                  store[k].user_id = calls[i].login => Find(store', store[k].id) = None
    /\ (calls[i].pc = "expired" /\ calls'[i].pc # "expired") =>
           /\ Find(store, calls[i].cookie) # None
           /\ Len(store') = Len(store) - 1
           /\ store' = SelectSeq(store, LAMBDA s : s.id # calls[i].cookie)

EverySaveStep == \A i \in DOMAIN calls : SaveStep(i)

\* C38: with create_session and get_session called one after the other, the
\* store holds at most one session for a user and no identifier twice;
\* create_session(u) removes the earlier sessions of u and leaves the
\* sessions of other users unchanged, so that the identifier of an earlier
\* login of u yields no session any more; get_session on an expired
\* identifier removes exactly that session.
C38_OneSessionPerUser == [](OnePerUser /\ OldIdentifierDead) /\ [][EverySaveStep]_vars

\* u1 logged in again, and the identifier s1 of the earlier login was then
\* presented and yielded nothing.
C38_Witness ==
    /\ Len(calls) = 2
    /\ calls[1].op = "login" /\ calls[1].login = "u1" /\ calls[1].pc = "done"
    /\ calls[2].op = "profile" /\ calls[2].cookie = "s1" /\ calls[2].pc = "done"
    /\ calls[2].session = None
    /\ Find(store, "n1").user_id = "u1"
    /\ Find(store, "s1") = None

\* The expired session s3 was looked up and taken out of the store, the
\* other stored sessions staying.
C38_WitnessExpired ==
    /\ Len(calls) >= 1
    /\ calls[1].op = "profile" /\ calls[1].cookie = "s3" /\ calls[1].pc = "done"
    /\ Find(store, "s3") = None
    /\ Find(store, "s1") # None /\ Find(store, "s2") # None

\* The operation a step performs, its position among the stored tasks and
\* the stored tasks it is not addressed to.
LastCall == calls'[Len(calls')]
Addressed(k) == store[k].id = LastCall.task_id

\* An operation answered with an error left the list as it was.
ErrorKeepsList ==
    (/\ LastCall.op \in {"create_task", "update_task", "delete_task"}
     /\ LastCall.status \in {400, 404}) => store' = store

\* An update of an id no task has is answered 404 whatever the body is.
UnknownIdIs404 ==
    (/\ LastCall.op = "update_task"
     /\ \A k \in DOMAIN store : ~Addressed(k)) => LastCall.status = 404

\* A successful update kept every other task, and the id and created_at of
\* the addressed one.
UpdateFrame ==
    (LastCall.op = "update_task" /\ LastCall.status = 200) =>
        /\ Len(store') = Len(store)
        /\ \E k \in DOMAIN store :
              /\ Addressed(k)
              /\ store'[k].id = store[k].id
              /\ store'[k].created_at = store[k].created_at
              /\ \A j \in DOMAIN store : j # k => store'[j] = store[j]

\* A successful delete took out the addressed task and nothing else.
DeleteFrame ==
    (LastCall.op = "delete_task" /\ LastCall.status = 200) =>
        \E k \in DOMAIN store :
            /\ Addressed(k)
            /\ store' = SubSeq(store, 1, k - 1) \o SubSeq(store, k + 1, Len(store))

TaskStep ==
    (Len(calls') = Len(calls) + 1 /\ LastCall.op \in {"create_task", "update_task", "delete_task"}) =>
        ErrorKeepsList /\ UnknownIdIs404 /\ UpdateFrame /\ DeleteFrame

\* C39: in the tasks API an operation answered 400 or 404 leaves the stored
\* list unchanged; update_task on an unknown id answers 404 even with an
\* invalid body; a successful update_task changes only title, description
\* and completed of the addressed task and keeps its id, its created_at
\* and every other task; a successful delete_task removes exactly the
\* addressed task.
C39_TaskFrame == [][TaskStep]_vars

\* Task t1 was updated, t2 is as it was, and an update of an unknown id
\* with an invalid body was then answered 404.
C39_Witness ==
    /\ Len(calls) = 2
    /\ calls[1].op = "update_task" /\ calls[1].task_id = "t1" /\ calls[1].status = 200
    /\ calls[2].op = "update_task" /\ calls[2].task_id = "zz" /\ calls[2].status = 404
    /\ calls[2].body.title = "absent"
    /\ Len(store) = 2
    /\ store[1].id = "t1" /\ store[1].title = "t" /\ store[1].created_at = 0
    /\ store[2].title = "Build a RESTful API"

====
